---- MODULE Spec2Model ----
(***************************************************************************)
(* A model of the operations core of term-squid (crates/backend): the      *)
(* Parameters envelope, the AppError responses, the read queries of the     *)
(* PostgresStore, and the handlers of $subsumes, $validate-code, $expand    *)
(* and $translate in their four call forms.                                 *)
(*                                                                         *)
(* The state is the Store (the tables the handlers read) and the last       *)
(* completed invocation: its input, the arguments its handler passed to     *)
(* perform_*, the Result it returned, the HTTP response built from it and   *)
(* the Store queries it issued; invocations are taken one at a time, each   *)
(* from the idle state (last = NoCall).  A handler is a function of the    *)
(* Store, its input and the environment (which Store query fails and with *)
(* which raw error, the generated uuid, the clock), so each is an operator *)
(* and one action applies it.                                              *)
(*                                                                         *)
(* Two specifications use 'last' for a run in progress instead:            *)
(* SpecConcurrent, where it holds the invocations in flight together, and  *)
(* SpecImport, where it holds the run of the CLI package import            *)
(* (crates/cli) and the view of its transaction.                           *)
(*                                                                         *)
(* Text is modelled by tuples: a message is the tuple of its pieces, and    *)
(* the strings Expand filters on are tuples of characters.                  *)
(* Rows of one url have distinct updated_at values, and (url, version) is   *)
(* unique, as the tables the import writes.                                 *)
(***************************************************************************)
EXTENDS Integers, Sequences, FiniteSets, TLC

VARIABLES store, last

vars == <<store, last>>

(***************************************************************************)
(* Option<T>, Result<T, AppError>                                          *)
(***************************************************************************)
None == << >>

Some(x) == <<x>>

Opt(S) == {None} \cup {Some(x) : x \in S}

Ok(v) == [ok |-> TRUE, val |-> v]

Err(e) == [ok |-> FALSE, err |-> e]

(***************************************************************************)
(* error.rs                                                                *)
(***************************************************************************)
Database(raw) == [kind |-> "Database", msg |-> <<raw>>]

NotFound(msg) == [kind |-> "NotFound", msg |-> msg]

BadRequest(msg) == [kind |-> "BadRequest", msg |-> msg]

\* #[error("...: {0}")]: the Display of an AppError
to_string(e) ==
  CASE e.kind = "Database" -> <<"Database error: ">> \o e.msg
    [] e.kind = "NotFound" -> <<"Not found: ">> \o e.msg
    [] e.kind = "BadRequest" -> <<"Bad request: ">> \o e.msg

into_response(e) ==
  LET status == CASE e.kind = "Database" -> "INTERNAL_SERVER_ERROR"
                  [] e.kind = "NotFound" -> "NOT_FOUND"
                  [] e.kind = "BadRequest" -> "BAD_REQUEST"
      error_message == CASE e.kind = "Database" -> "Database error"
                         [] e.kind = "NotFound" -> "Resource not found"
                         [] e.kind = "BadRequest" -> "Bad request"
  IN [status |-> status,
      body |-> [error |-> error_message, message |-> to_string(e)]]

\* axum's response to a handler's Result<Json<T>, AppError>
Respond(res) ==
  IF res.ok THEN [status |-> "OK", body |-> res.val] ELSE into_response(res.err)

(***************************************************************************)
(* The environment of one invocation: which of its Store queries fails     *)
(* (at = 0: none) and the raw storage-engine error it fails with.          *)
(***************************************************************************)
MaxFaultAt == 6

RawErrors == {"pool timed out", "connection reset"}

NoFault == [at |-> 0, raw |-> "-"]

Faults == {NoFault} \cup [at : 1..MaxFaultAt, raw : RawErrors]

FaultsUpTo(n) == {f \in Faults : f.at <= n}

\* the fault as seen by a callee that starts after k queries were issued
Shift(f, k) == IF f.at > k THEN [f EXCEPT !.at = f.at - k] ELSE NoFault

\* what a handler hands back: its Result, the tables it queried in order,
\* and the arguments it passed to perform_* (None when it returned before)
Out(res, queries, call) == [res |-> res, queries |-> queries, call |-> call]

(***************************************************************************)
(* api/parameters.rs                                                       *)
(***************************************************************************)
with_parameters(params) == [resource_type |-> "Parameters", parameter |-> Some(params)]

Min(S) == CHOOSE x \in S : \A y \in S : x <= y

get_parameter(self, name) ==
  IF self.parameter = None THEN None
  ELSE LET ps == self.parameter[1]
           found == {i \in 1..Len(ps) : ps[i].name = name}
       IN IF found = {} THEN None ELSE Some(ps[Min(found)])

\* an accessor that looks for the first Parameter of the name that holds the
\* requested kind
get_variant_first_of_kind(self, name, kind) ==
  IF self.parameter = None THEN None
  ELSE LET ps == self.parameter[1]
           found == {i \in 1..Len(ps) :
                       /\ ps[i].name = name
                       /\ ps[i].value /= None
                       /\ ps[i].value[1].kind = kind}
       IN IF found = {} THEN None ELSE Some(ps[Min(found)].value[1].v)

\* the match of get_string / get_boolean / get_code / get_uri on one variant
get_variant(self, name, kind) ==
  LET p == get_parameter(self, name)
  IN IF p = None THEN None
     ELSE IF p[1].value = None THEN None
     ELSE IF p[1].value[1].kind = kind THEN Some(p[1].value[1].v)
     ELSE None

get_string(self, name) == get_variant(self, name, "valueString")

get_boolean(self, name) == get_variant(self, name, "valueBoolean")

get_code(self, name) == get_variant(self, name, "valueCode")

get_uri(self, name) == get_variant(self, name, "valueUri")

\* Option::or_else
or_else(a, b) == IF a /= None THEN a ELSE b

\* Option::unwrap_or
unwrap_or(o, d) == IF o /= None THEN o[1] ELSE d

Value(kind, v) == [kind |-> kind, v |-> v]

Parameter_string(name, value) ==
  [name |-> name, value |-> Some(Value("valueString", value)), part |-> None]

Parameter_boolean(name, value) ==
  [name |-> name, value |-> Some(Value("valueBoolean", value)), part |-> None]

Parameter_code(name, value) ==
  [name |-> name, value |-> Some(Value("valueCode", value)), part |-> None]

Parameter_coding(name, coding) ==
  [name |-> name, value |-> Some(Value("valueCoding", coding)), part |-> None]

\* a grouping helper that also fills the value slot
Parameter_part_with_value(name, parts) ==
  [name |-> name, value |-> Some(Value("valueString", name)), part |-> Some(parts)]

Parameter_part(name, parts) ==
  [name |-> name, value |-> None, part |-> Some(parts)]

\* a Parameter of a posted envelope, of any value kind
Parameter_of(name, kind, v) ==
  [name |-> name, value |-> Some(Value(kind, v)), part |-> None]

\* the posted envelope holding the present ones of a sequence of optional Parameters
RECURSIVE Present(_)
Present(opts) ==
  IF opts = << >> THEN << >>
  ELSE (IF Head(opts) = None THEN << >> ELSE <<Head(opts)[1]>>) \o Present(Tail(opts))

Envelope(opts) == with_parameters(Present(opts))

\* the optional Parameters (name, kind, text) for a name, over kinds and texts
OptParam(name, kinds, texts) ==
  {None} \cup {Some(Parameter_of(name, k, t)) : k \in kinds, t \in texts}

(***************************************************************************)
(* store/postgres.rs: the read queries, on the rows of the tables          *)
(***************************************************************************)
\* SELECT * FROM <table> WHERE url = $1 [AND version = $2 | ORDER BY updated_at DESC LIMIT 1]
by_url(rows, url, version) ==
  LET hits == IF version /= None
              THEN {r \in rows : r.url = url /\ r.version = version}
              ELSE {r \in rows : /\ r.url = url
                                 /\ \A o \in rows : o.url = url => o.updated_at <= r.updated_at}
  IN IF hits = {} THEN None ELSE Some(CHOOSE r \in hits : TRUE)

\* SELECT * FROM <table> WHERE id = $1
by_id(rows, id) ==
  LET hits == {r \in rows : r.id = id}
  IN IF hits = {} THEN None ELSE Some(CHOOSE r \in hits : TRUE)

get_code_system(st, url, version) == by_url(st.code_systems, url, version)

get_code_system_by_id(st, id) == by_id(st.code_systems, id)

get_value_set(st, url, version) == by_url(st.value_sets, url, version)

get_value_set_by_id(st, id) == by_id(st.value_sets, id)

get_concept_map(st, url, version) == by_url(st.concept_maps, url, version)

get_concept_map_by_id(st, id) == by_id(st.concept_maps, id)

get_concept(st, code_system_id, code) ==
  LET hits == {c \in st.concepts : c.code_system_id = code_system_id /\ c.code = code}
  IN IF hits = {} THEN None ELSE Some(CHOOSE c \in hits : TRUE)

\* SELECT TRUE FROM closure_table WHERE code_system_id = $1
\*   AND ancestor_code = $2 AND descendant_code = $3
closure_row(st, code_system_id, ancestor, descendant) ==
  [code_system_id |-> code_system_id, ancestor_code |-> ancestor,
   descendant_code |-> descendant] \in st.closure_table

\* a copy-paste slip: the second query binds (code_a, code_b) again
check_subsumption_same_binds(st, code_system_id, code_a, code_b, f) ==
  IF f.at = 1 THEN Out(Err(Database(f.raw)), <<"closure_table">>, None)
  ELSE IF closure_row(st, code_system_id, code_a, code_b)
  THEN Out(Ok(Some(TRUE)), <<"closure_table">>, None)
  ELSE IF f.at = 2
  THEN Out(Err(Database(f.raw)), <<"closure_table", "closure_table">>, None)
  ELSE IF closure_row(st, code_system_id, code_a, code_b)
  THEN Out(Ok(Some(FALSE)), <<"closure_table", "closure_table">>, None)
  ELSE Out(Ok(None), <<"closure_table", "closure_table">>, None)

\* a check that asks for (code_b ancestor-of code_a) first
check_subsumption_descendant_first(st, code_system_id, code_a, code_b, f) ==
  IF f.at = 1 THEN Out(Err(Database(f.raw)), <<"closure_table">>, None)
  ELSE IF closure_row(st, code_system_id, code_b, code_a)
  THEN Out(Ok(Some(FALSE)), <<"closure_table">>, None)
  ELSE IF f.at = 2
  THEN Out(Err(Database(f.raw)), <<"closure_table", "closure_table">>, None)
  ELSE IF closure_row(st, code_system_id, code_a, code_b)
  THEN Out(Ok(Some(TRUE)), <<"closure_table", "closure_table">>, None)
  ELSE Out(Ok(None), <<"closure_table", "closure_table">>, None)

check_subsumption(st, code_system_id, code_a, code_b, f) ==
  IF f.at = 1 THEN Out(Err(Database(f.raw)), <<"closure_table">>, None)
  ELSE IF closure_row(st, code_system_id, code_a, code_b)
  THEN Out(Ok(Some(TRUE)), <<"closure_table">>, None)
  ELSE IF f.at = 2
  THEN Out(Err(Database(f.raw)), <<"closure_table", "closure_table">>, None)
  ELSE IF closure_row(st, code_system_id, code_b, code_a)
  THEN Out(Ok(Some(FALSE)), <<"closure_table", "closure_table">>, None)
  ELSE Out(Ok(None), <<"closure_table", "closure_table">>, None)

(***************************************************************************)
(* api/operations/subsumes.rs                                              *)
(***************************************************************************)
Outcome(code) == Ok(with_parameters(<<Parameter_code("outcome", code)>>))

SubsumesCall(system, code_a, code_b, version) ==
  Some([system |-> system, code_a |-> code_a, code_b |-> code_b, version |-> version])

\* the equivalence test moved after the closure query
perform_subsumes_late_equivalence(st, system, code_a, code_b, version, f) ==
  LET call == SubsumesCall(system, code_a, code_b, version)
      code_system == get_code_system(st, system, version)
      q3 == <<"code_systems", "concepts", "concepts">>
  IN IF f.at = 1 THEN Out(Err(Database(f.raw)), <<"code_systems">>, call)
     ELSE IF code_system = None
     THEN Out(Err(NotFound(<<"CodeSystem '", system, "' not found">>)),
              <<"code_systems">>, call)
     ELSE IF f.at = 2
     THEN Out(Err(Database(f.raw)), <<"code_systems", "concepts">>, call)
     ELSE IF f.at = 3 THEN Out(Err(Database(f.raw)), q3, call)
     ELSE IF get_concept(st, code_system[1].id, code_a) = None
     THEN Out(Err(NotFound(<<"Code '", code_a, "' not found in system '", system, "'">>)),
              q3, call)
     ELSE IF get_concept(st, code_system[1].id, code_b) = None
     THEN Out(Err(NotFound(<<"Code '", code_b, "' not found in system '", system, "'">>)),
              q3, call)
     ELSE LET outcome == check_subsumption(st, code_system[1].id, code_a, code_b,
                                           Shift(f, 3))
              queries == q3 \o outcome.queries
          IN IF ~outcome.res.ok THEN Out(outcome.res, queries, call)
             ELSE IF outcome.res.val = Some(TRUE) THEN Out(Outcome("subsumes"), queries, call)
             ELSE IF outcome.res.val = Some(FALSE)
             THEN Out(Outcome("subsumed-by"), queries, call)
             ELSE IF code_a = code_b THEN Out(Outcome("equivalent"), queries, call)
             ELSE Out(Outcome("not-subsumed"), queries, call)

\* a comparison that answers 'not-subsumed' for a code the CodeSystem does not
\* hold
perform_subsumes_negative_outcome(st, system, code_a, code_b, version, f) ==
  LET call == SubsumesCall(system, code_a, code_b, version)
      code_system == get_code_system(st, system, version)
      q3 == <<"code_systems", "concepts", "concepts">>
  IN IF f.at = 1 THEN Out(Err(Database(f.raw)), <<"code_systems">>, call)
     ELSE IF code_system = None
     THEN Out(Err(NotFound(<<"CodeSystem '", system, "' not found">>)),
              <<"code_systems">>, call)
     ELSE IF f.at = 2
     THEN Out(Err(Database(f.raw)), <<"code_systems", "concepts">>, call)
     ELSE IF f.at = 3 THEN Out(Err(Database(f.raw)), q3, call)
     ELSE IF get_concept(st, code_system[1].id, code_a) = None
     THEN Out(Outcome("not-subsumed"), q3, call)
     ELSE IF get_concept(st, code_system[1].id, code_b) = None
     THEN Out(Outcome("not-subsumed"), q3, call)
     ELSE IF code_a = code_b THEN Out(Outcome("equivalent"), q3, call)
     ELSE LET outcome == check_subsumption(st, code_system[1].id, code_a, code_b,
                                           Shift(f, 3))
              queries == q3 \o outcome.queries
          IN IF ~outcome.res.ok THEN Out(outcome.res, queries, call)
             ELSE IF outcome.res.val = Some(TRUE) THEN Out(Outcome("subsumes"), queries, call)
             ELSE IF outcome.res.val = Some(FALSE)
             THEN Out(Outcome("subsumed-by"), queries, call)
             ELSE Out(Outcome("not-subsumed"), queries, call)

\* a comparison that looks at codeB before codeA
perform_subsumes_code_b_first(st, system, code_a, code_b, version, f) ==
  LET call == SubsumesCall(system, code_a, code_b, version)
      code_system == get_code_system(st, system, version)
      q3 == <<"code_systems", "concepts", "concepts">>
  IN IF f.at = 1 THEN Out(Err(Database(f.raw)), <<"code_systems">>, call)
     ELSE IF code_system = None
     THEN Out(Err(NotFound(<<"CodeSystem '", system, "' not found">>)),
              <<"code_systems">>, call)
     ELSE IF f.at = 2
     THEN Out(Err(Database(f.raw)), <<"code_systems", "concepts">>, call)
     ELSE IF f.at = 3 THEN Out(Err(Database(f.raw)), q3, call)
     ELSE IF get_concept(st, code_system[1].id, code_b) = None
     THEN Out(Err(NotFound(<<"Code '", code_b, "' not found in system '", system, "'">>)),
              q3, call)
     ELSE IF get_concept(st, code_system[1].id, code_a) = None
     THEN Out(Err(NotFound(<<"Code '", code_a, "' not found in system '", system, "'">>)),
              q3, call)
     ELSE IF code_a = code_b THEN Out(Outcome("equivalent"), q3, call)
     ELSE LET outcome == check_subsumption(st, code_system[1].id, code_a, code_b,
                                           Shift(f, 3))
              queries == q3 \o outcome.queries
          IN IF ~outcome.res.ok THEN Out(outcome.res, queries, call)
             ELSE IF outcome.res.val = Some(TRUE) THEN Out(Outcome("subsumes"), queries, call)
             ELSE IF outcome.res.val = Some(FALSE)
             THEN Out(Outcome("subsumed-by"), queries, call)
             ELSE Out(Outcome("not-subsumed"), queries, call)

perform_subsumes(st, system, code_a, code_b, version, f) ==
  LET call == SubsumesCall(system, code_a, code_b, version)
      code_system == get_code_system(st, system, version)
      q3 == <<"code_systems", "concepts", "concepts">>
  IN IF f.at = 1 THEN Out(Err(Database(f.raw)), <<"code_systems">>, call)
     ELSE IF code_system = None
     THEN Out(Err(NotFound(<<"CodeSystem '", system, "' not found">>)),
              <<"code_systems">>, call)
     ELSE IF f.at = 2
     THEN Out(Err(Database(f.raw)), <<"code_systems", "concepts">>, call)
     ELSE IF f.at = 3 THEN Out(Err(Database(f.raw)), q3, call)
     ELSE IF get_concept(st, code_system[1].id, code_a) = None
     THEN Out(Err(NotFound(<<"Code '", code_a, "' not found in system '", system, "'">>)),
              q3, call)
     ELSE IF get_concept(st, code_system[1].id, code_b) = None
     THEN Out(Err(NotFound(<<"Code '", code_b, "' not found in system '", system, "'">>)),
              q3, call)
     ELSE IF code_a = code_b THEN Out(Outcome("equivalent"), q3, call)
     ELSE LET outcome == check_subsumption(st, code_system[1].id, code_a, code_b,
                                           Shift(f, 3))
              queries == q3 \o outcome.queries
          IN IF ~outcome.res.ok THEN Out(outcome.res, queries, call)
             ELSE IF outcome.res.val = Some(TRUE) THEN Out(Outcome("subsumes"), queries, call)
             ELSE IF outcome.res.val = Some(FALSE)
             THEN Out(Outcome("subsumed-by"), queries, call)
             ELSE Out(Outcome("not-subsumed"), queries, call)

Required(msg) == Out(Err(BadRequest(<<msg>>)), << >>, None)

\* GET /CodeSystem/$subsumes; params is the Query<SubsumesParams>
subsumes_get(st, params, f) ==
  IF params.system = None THEN Required("system parameter required")
  ELSE IF params.code_a = None THEN Required("codeA parameter required")
  ELSE IF params.code_b = None THEN Required("codeB parameter required")
  ELSE perform_subsumes(st, params.system[1], params.code_a[1], params.code_b[1],
                        params.version, f)

\* POST /CodeSystem/$subsumes; params is the posted Parameters
subsumes_post(st, params, f) ==
  LET system == or_else(get_string(params, "system"), get_uri(params, "system"))
      code_a == or_else(get_string(params, "codeA"), get_code(params, "codeA"))
      code_b == or_else(get_string(params, "codeB"), get_code(params, "codeB"))
      version == get_string(params, "version")
  IN IF system = None THEN Required("system parameter required")
     ELSE IF code_a = None THEN Required("codeA parameter required")
     ELSE IF code_b = None THEN Required("codeB parameter required")
     ELSE perform_subsumes(st, system[1], code_a[1], code_b[1], version, f)

\* the tail of both instance forms: the CodeSystem by id, then perform_subsumes on its url
subsumes_by_id(st, id, code_a, code_b, f) ==
  LET code_system == get_code_system_by_id(st, id)
  IN IF f.at = 1 THEN Out(Err(Database(f.raw)), <<"code_systems">>, None)
     ELSE IF code_system = None
     THEN Out(Err(NotFound(<<"CodeSystem ", id, " not found">>)), <<"code_systems">>, None)
     ELSE LET o == perform_subsumes(st, code_system[1].url, code_a, code_b, None,
                                    Shift(f, 1))
          IN Out(o.res, <<"code_systems">> \o o.queries, o.call)

\* GET /CodeSystem/{id}/$subsumes
subsumes_instance_get(st, id, params, f) ==
  IF params.code_a = None THEN Required("codeA parameter required")
  ELSE IF params.code_b = None THEN Required("codeB parameter required")
  ELSE subsumes_by_id(st, id, params.code_a[1], params.code_b[1], f)

\* POST /CodeSystem/{id}/$subsumes
subsumes_instance_post(st, id, params, f) ==
  LET code_a == or_else(get_string(params, "codeA"), get_code(params, "codeA"))
      code_b == or_else(get_string(params, "codeB"), get_code(params, "codeB"))
  IN IF code_a = None THEN Required("codeA parameter required")
     ELSE IF code_b = None THEN Required("codeB parameter required")
     ELSE subsumes_by_id(st, id, code_a[1], code_b[1], f)

\* the route table of operation_routes for $subsumes
Subsumes(st, form, id, input, f) ==
  CASE form = "get" -> subsumes_get(st, input, f)
    [] form = "post" -> subsumes_post(st, input, f)
    [] form = "instance_get" -> subsumes_instance_get(st, id[1], input, f)
    [] form = "instance_post" -> subsumes_instance_post(st, id[1], input, f)

(***************************************************************************)
(* api/operations/validate.rs                                              *)
(***************************************************************************)
ValidateCall(system, code, version, display) ==
  Some([system |-> system, code |-> code, version |-> version, display |-> display])

\* a missing CodeSystem reported as an error, as perform_lookup does
perform_validate_code_not_found(st, system, code, version, display, f) ==
  LET call == ValidateCall(system, code, version, display)
      code_system == get_code_system(st, system, version)
      concept == get_concept(st, code_system[1].id, code)
      mismatch == /\ display /= None
                  /\ concept[1].display /= None
                  /\ concept[1].display[1] /= display[1]
  IN IF f.at = 1 THEN Out(Err(Database(f.raw)), <<"code_systems">>, call)
     ELSE IF code_system = None
     THEN Out(Err(NotFound(<<"CodeSystem '", system, "' not found">>)),
              <<"code_systems">>, call)
     ELSE IF f.at = 2
     THEN Out(Err(Database(f.raw)), <<"code_systems", "concepts">>, call)
     ELSE IF concept /= None
     THEN Out(Ok(with_parameters(
                <<Parameter_boolean("result", TRUE)>>
                \o (IF mismatch
                    THEN <<Parameter_string("message",
                             <<"Display value '", display[1], "' does not match expected '",
                               concept[1].display[1], "'">>)>>
                    ELSE << >>)
                \o <<Parameter_string("display", unwrap_or(concept[1].display, ""))>>)),
              <<"code_systems", "concepts">>, call)
     ELSE Out(Ok(with_parameters(<<
                Parameter_boolean("result", FALSE),
                Parameter_string("message",
                  <<"Code '", code, "' not found in system '", system, "'">>)>>)),
              <<"code_systems", "concepts">>, call)

\* the advisory display comparison deciding 'result'
perform_validate_code_strict_display(st, system, code, version, display, f) ==
  LET call == ValidateCall(system, code, version, display)
      code_system == get_code_system(st, system, version)
      concept == get_concept(st, code_system[1].id, code)
      mismatch == /\ display /= None
                  /\ concept[1].display /= None
                  /\ concept[1].display[1] /= display[1]
  IN IF f.at = 1 THEN Out(Err(Database(f.raw)), <<"code_systems">>, call)
     ELSE IF code_system = None
     THEN Out(Ok(with_parameters(<<
                Parameter_boolean("result", FALSE),
                Parameter_string("message", <<"CodeSystem '", system, "' not found">>)>>)),
              <<"code_systems">>, call)
     ELSE IF f.at = 2
     THEN Out(Err(Database(f.raw)), <<"code_systems", "concepts">>, call)
     ELSE IF concept /= None
     THEN Out(Ok(with_parameters(
                <<Parameter_boolean("result", ~mismatch)>>
                \o (IF mismatch
                    THEN <<Parameter_string("message",
                             <<"Display value '", display[1], "' does not match expected '",
                               concept[1].display[1], "'">>)>>
                    ELSE << >>)
                \o <<Parameter_string("display", unwrap_or(concept[1].display, ""))>>)),
              <<"code_systems", "concepts">>, call)
     ELSE Out(Ok(with_parameters(<<
                Parameter_boolean("result", FALSE),
                Parameter_string("message",
                  <<"Code '", code, "' not found in system '", system, "'">>)>>)),
              <<"code_systems", "concepts">>, call)

\* a validation that answers result false when the Concept query fails
perform_validate_code_swallowing(st, system, code, version, display, f) ==
  LET call == ValidateCall(system, code, version, display)
      code_system == get_code_system(st, system, version)
      concept == IF f.at = 2 THEN None ELSE get_concept(st, code_system[1].id, code)
      mismatch == /\ display /= None
                  /\ concept[1].display /= None
                  /\ concept[1].display[1] /= display[1]
  IN IF f.at = 1 THEN Out(Err(Database(f.raw)), <<"code_systems">>, call)
     ELSE IF code_system = None
     THEN Out(Ok(with_parameters(<<
                Parameter_boolean("result", FALSE),
                Parameter_string("message", <<"CodeSystem '", system, "' not found">>)>>)),
              <<"code_systems">>, call)
     ELSE IF concept /= None
     THEN Out(Ok(with_parameters(
                <<Parameter_boolean("result", TRUE)>>
                \o (IF mismatch
                    THEN <<Parameter_string("message",
                             <<"Display value '", display[1], "' does not match expected '",
                               concept[1].display[1], "'">>)>>
                    ELSE << >>)
                \o <<Parameter_string("display", unwrap_or(concept[1].display, ""))>>)),
              <<"code_systems", "concepts">>, call)
     ELSE Out(Ok(with_parameters(<<
                Parameter_boolean("result", FALSE),
                Parameter_string("message",
                  <<"Code '", code, "' not found in system '", system, "'">>)>>)),
              <<"code_systems", "concepts">>, call)

perform_validate_code(st, system, code, version, display, f) ==
  LET call == ValidateCall(system, code, version, display)
      code_system == get_code_system(st, system, version)
      concept == get_concept(st, code_system[1].id, code)
      mismatch == /\ display /= None
                  /\ concept[1].display /= None
                  /\ concept[1].display[1] /= display[1]
  IN IF f.at = 1 THEN Out(Err(Database(f.raw)), <<"code_systems">>, call)
     ELSE IF code_system = None
     THEN Out(Ok(with_parameters(<<
                Parameter_boolean("result", FALSE),
                Parameter_string("message", <<"CodeSystem '", system, "' not found">>)>>)),
              <<"code_systems">>, call)
     ELSE IF f.at = 2
     THEN Out(Err(Database(f.raw)), <<"code_systems", "concepts">>, call)
     ELSE IF concept /= None
     THEN Out(Ok(with_parameters(
                <<Parameter_boolean("result", TRUE)>>
                \o (IF mismatch
                    THEN <<Parameter_string("message",
                             <<"Display value '", display[1], "' does not match expected '",
                               concept[1].display[1], "'">>)>>
                    ELSE << >>)
                \o <<Parameter_string("display", unwrap_or(concept[1].display, ""))>>)),
              <<"code_systems", "concepts">>, call)
     ELSE Out(Ok(with_parameters(<<
                Parameter_boolean("result", FALSE),
                Parameter_string("message",
                  <<"Code '", code, "' not found in system '", system, "'">>)>>)),
              <<"code_systems", "concepts">>, call)

ValueSetCall(value_set_url, system, code, display) ==
  Some([value_set_url |-> value_set_url, system |-> system, code |-> code,
        version |-> None, display |-> display])

\* the TODO carried out: the code must also be an entry of the expansion
\* stored for the ValueSet of that url
perform_validate_code_valueset_membership(st, value_set_url, system, code, display, f) ==
  LET code_validation == perform_validate_code(st, system, code, None, display, f)
      call == ValueSetCall(value_set_url, system, code, display)
      member == \E vs \in st.value_sets, r \in st.value_set_expansions :
                  /\ vs.url = value_set_url
                  /\ r.value_set_id = vs.id
                  /\ r.expansion.contains /= None
                  /\ \E i \in 1..Len(r.expansion.contains[1].items) :
                       r.expansion.contains[1].items[i].code[1].text = <<code>>
  IN IF ~code_validation.res.ok THEN Out(code_validation.res, code_validation.queries, call)
     ELSE IF ~unwrap_or(get_boolean(code_validation.res.val, "result"), FALSE)
     THEN Out(code_validation.res, code_validation.queries, call)
     ELSE IF ~member
     THEN Out(Ok(with_parameters(<<
                Parameter_boolean("result", FALSE),
                Parameter_string("message", <<"Code '", code, "' is not in the ValueSet">>)>>)),
              code_validation.queries, call)
     ELSE Out(Ok(with_parameters(<<
                Parameter_boolean("result", TRUE),
                Parameter_string("message",
                  <<"Code validation passed (ValueSet expansion not yet implemented)">>)>>)),
              code_validation.queries, call)

\* the CodeSystem variant's negative envelope replaced by a fixed one as well
perform_validate_code_valueset_fixed_negative(st, value_set_url, system, code, display, f) ==
  LET code_validation == perform_validate_code(st, system, code, None, display, f)
      call == ValueSetCall(value_set_url, system, code, display)
  IN IF ~code_validation.res.ok THEN Out(code_validation.res, code_validation.queries, call)
     ELSE Out(Ok(with_parameters(<<
                Parameter_boolean("result",
                  unwrap_or(get_boolean(code_validation.res.val, "result"), FALSE)),
                Parameter_string("message",
                  <<"Code validation passed (ValueSet expansion not yet implemented)">>)>>)),
              code_validation.queries, call)

perform_validate_code_valueset(st, value_set_url, system, code, display, f) ==
  LET code_validation == perform_validate_code(st, system, code, None, display, f)
      call == ValueSetCall(value_set_url, system, code, display)
  IN IF ~code_validation.res.ok THEN Out(code_validation.res, code_validation.queries, call)
     ELSE IF ~unwrap_or(get_boolean(code_validation.res.val, "result"), FALSE)
     THEN Out(code_validation.res, code_validation.queries, call)
     ELSE Out(Ok(with_parameters(<<
                Parameter_boolean("result", TRUE),
                Parameter_string("message",
                  <<"Code validation passed (ValueSet expansion not yet implemented)">>)>>)),
              code_validation.queries, call)

\* GET /CodeSystem/$validate-code; params is the Query<ValidateCodeParams>
validate_code_cs_get(st, params, f) ==
  LET system == or_else(params.system, params.url)
  IN IF system = None THEN Required("system or url parameter required")
     ELSE IF params.code = None THEN Required("code parameter required")
     ELSE perform_validate_code(st, system[1], params.code[1], params.version,
                                params.display, f)

\* POST /CodeSystem/$validate-code; params is the posted Parameters
validate_code_cs_post(st, params, f) ==
  LET system == or_else(or_else(get_string(params, "system"), get_string(params, "url")),
                        get_uri(params, "url"))
      code == or_else(get_string(params, "code"), get_code(params, "code"))
  IN IF system = None THEN Required("system or url parameter required")
     ELSE IF code = None THEN Required("code parameter required")
     ELSE perform_validate_code(st, system[1], code[1], get_string(params, "version"),
                                get_string(params, "display"), f)

\* the tail of both CodeSystem instance forms
validate_code_cs_by_id(st, id, code, display, f) ==
  LET code_system == get_code_system_by_id(st, id)
  IN IF f.at = 1 THEN Out(Err(Database(f.raw)), <<"code_systems">>, None)
     ELSE IF code_system = None
     THEN Out(Err(NotFound(<<"CodeSystem ", id, " not found">>)), <<"code_systems">>, None)
     ELSE LET o == perform_validate_code(st, code_system[1].url, code, None, display,
                                         Shift(f, 1))
          IN Out(o.res, <<"code_systems">> \o o.queries, o.call)

\* GET /CodeSystem/{id}/$validate-code
validate_code_cs_instance_get(st, id, params, f) ==
  IF params.code = None THEN Required("code parameter required")
  ELSE validate_code_cs_by_id(st, id, params.code[1], params.display, f)

\* POST /CodeSystem/{id}/$validate-code
validate_code_cs_instance_post(st, id, params, f) ==
  LET code == or_else(get_string(params, "code"), get_code(params, "code"))
  IN IF code = None THEN Required("code parameter required")
     ELSE validate_code_cs_by_id(st, id, code[1], get_string(params, "display"), f)

\* GET /ValueSet/$validate-code
validate_code_vs_get(st, params, f) ==
  IF params.url = None THEN Required("url parameter required for ValueSet")
  ELSE IF params.code = None THEN Required("code parameter required")
  ELSE IF params.system = None
  THEN Required("system parameter required for ValueSet validation")
  ELSE perform_validate_code_valueset(st, params.url[1], params.system[1], params.code[1],
                                      params.display, f)

\* POST /ValueSet/$validate-code
validate_code_vs_post(st, params, f) ==
  LET value_set_url == or_else(get_string(params, "url"), get_uri(params, "url"))
      code == or_else(get_string(params, "code"), get_code(params, "code"))
      system == get_string(params, "system")
  IN IF value_set_url = None THEN Required("url parameter required for ValueSet")
     ELSE IF code = None THEN Required("code parameter required")
     ELSE IF system = None THEN Required("system parameter required for ValueSet validation")
     ELSE perform_validate_code_valueset(st, value_set_url[1], system[1], code[1],
                                         get_string(params, "display"), f)

\* the tail of both ValueSet instance forms
validate_code_vs_by_id(st, id, system, code, display, f) ==
  LET value_set == get_value_set_by_id(st, id)
  IN IF f.at = 1 THEN Out(Err(Database(f.raw)), <<"value_sets">>, None)
     ELSE IF value_set = None
     THEN Out(Err(NotFound(<<"ValueSet ", id, " not found">>)), <<"value_sets">>, None)
     ELSE LET o == perform_validate_code_valueset(st, value_set[1].url, system, code,
                                                  display, Shift(f, 1))
          IN Out(o.res, <<"value_sets">> \o o.queries, o.call)

\* GET /ValueSet/{id}/$validate-code
validate_code_vs_instance_get(st, id, params, f) ==
  IF params.code = None THEN Required("code parameter required")
  ELSE IF params.system = None
  THEN Required("system parameter required for ValueSet validation")
  ELSE validate_code_vs_by_id(st, id, params.system[1], params.code[1], params.display, f)

\* POST /ValueSet/{id}/$validate-code
validate_code_vs_instance_post(st, id, params, f) ==
  LET code == or_else(get_string(params, "code"), get_code(params, "code"))
      system == get_string(params, "system")
  IN IF code = None THEN Required("code parameter required")
     ELSE IF system = None THEN Required("system parameter required for ValueSet validation")
     ELSE validate_code_vs_by_id(st, id, system[1], code[1],
                                 get_string(params, "display"), f)

(***************************************************************************)
(* api/operations/translate.rs                                             *)
(* A ConceptMap's content is the document {group: [{source, target,        *)
(* element: [{code, target: [{code, display, equivalence}]}]}]}; a field   *)
(* that is missing or not of the expected JSON type reads as None.         *)
(***************************************************************************)
RECURSIVE Concat(_)
Concat(seqs) == IF seqs = << >> THEN << >> ELSE Head(seqs) \o Concat(Tail(seqs))

Coding_new(system, code) ==
  [system |-> Some(system), version |-> None, code |-> Some(code), display |-> None]

with_display(coding, display) == [coding EXCEPT !.display = Some(display)]

\* a traversal that takes the group's target as the system of the Codings and
\* of the filter whatever the direction
target_match_forward_only(group, target, target_system, reverse) ==
  IF target.code = None THEN << >>
  ELSE LET target_system_str == unwrap_or(group.target, "")
           coding == Coding_new(target_system_str, target.code[1])
       IN IF target_system /= None /\ target_system_str /= target_system[1] THEN << >>
          ELSE <<Parameter_part("match", <<
                   Parameter_code("equivalence", unwrap_or(target.equivalence, "equivalent")),
                   Parameter_coding("concept",
                     IF target.display /= None THEN with_display(coding, target.display[1])
                     ELSE coding)>>)>>

\* the body of `for target in targets`: the 'match' pushed for one target, if any
target_match(group, target, target_system, reverse) ==
  IF target.code = None THEN << >>
  ELSE LET target_system_str == IF reverse THEN unwrap_or(group.source, "")
                                ELSE unwrap_or(group.target, "")
           coding == Coding_new(target_system_str, target.code[1])
       IN IF target_system /= None /\ target_system_str /= target_system[1] THEN << >>
          ELSE <<Parameter_part("match", <<
                   Parameter_code("equivalence", unwrap_or(target.equivalence, "equivalent")),
                   Parameter_coding("concept",
                     IF target.display /= None THEN with_display(coding, target.display[1])
                     ELSE coding)>>)>>

\* a traversal that visits the targets of an element from the last to the first
element_matches_backwards(group, element, source_code, target_system, reverse) ==
  IF element.code = Some(source_code) /\ element.target /= None
  THEN LET n == Len(element.target[1])
       IN Concat([i \in 1..n |->
                    target_match(group, element.target[1][n + 1 - i], target_system, reverse)])
  ELSE << >>

\* the body of `for element in elements`
element_matches(group, element, source_code, target_system, reverse) ==
  IF element.code = Some(source_code) /\ element.target /= None
  THEN Concat([i \in 1..Len(element.target[1]) |->
                 target_match(group, element.target[1][i], target_system, reverse)])
  ELSE << >>

\* the body of `for group in groups`
group_matches(group, source_system, source_code, target_system, reverse) ==
  LET matches_source == IF reverse THEN group.target = Some(source_system)
                        ELSE group.source = Some(source_system)
  IN IF matches_source /\ group.element /= None
     THEN Concat([i \in 1..Len(group.element[1]) |->
                    element_matches(group, group.element[1][i], source_code, target_system,
                                    reverse)])
     ELSE << >>

TranslateCall(concept_map_url, source_system, source_code, target_system, reverse) ==
  Some([concept_map_url |-> concept_map_url, source_system |-> source_system,
        source_code |-> source_code, target_system |-> target_system, reverse |-> reverse])

\* a translation that adds the message to every envelope
perform_translate_always_message(st, concept_map_url, source_system, source_code, target_system, reverse, f) ==
  LET call == TranslateCall(concept_map_url, source_system, source_code, target_system,
                            reverse)
      concept_map == get_concept_map(st, concept_map_url[1], None)
      content == concept_map[1].content
      matches == IF content.group = None THEN << >>
                 ELSE Concat([i \in 1..Len(content.group[1]) |->
                                group_matches(content.group[1][i], source_system,
                                              source_code, target_system, reverse)])
  IN IF concept_map_url = None
     THEN Out(Ok(with_parameters(<<
                Parameter_boolean("result", FALSE),
                Parameter_string("message",
                  <<"ConceptMap URL parameter is required (search not yet implemented)">>)>>)),
              << >>, call)
     ELSE IF f.at = 1 THEN Out(Err(Database(f.raw)), <<"concept_maps">>, call)
     ELSE IF concept_map = None
     THEN Out(Err(NotFound(<<"ConceptMap '", concept_map_url[1], "' not found">>)),
              <<"concept_maps">>, call)
     ELSE Out(Ok(with_parameters(
                <<Parameter_boolean("result", matches /= << >>),
                  Parameter_string("message",
                    <<"No translation found for code '", source_code,
                      "' in system '", source_system, "'">>)>>
                \o matches)),
              <<"concept_maps">>, call)

\* a translation that, given no ConceptMap URL, searches the ConceptMaps of the
\* Store and translates with the one updated last
perform_translate_search(st, concept_map_url, source_system, source_code, target_system, reverse, f) ==
  LET call == TranslateCall(concept_map_url, source_system, source_code, target_system,
                            reverse)
      latest == {m \in st.concept_maps :
                   \A other \in st.concept_maps : other.updated_at <= m.updated_at}
      concept_map == IF concept_map_url /= None
                     THEN get_concept_map(st, concept_map_url[1], None)
                     ELSE IF latest = {} THEN None ELSE Some(CHOOSE m \in latest : TRUE)
      content == concept_map[1].content
      matches == IF content.group = None THEN << >>
                 ELSE Concat([i \in 1..Len(content.group[1]) |->
                                group_matches(content.group[1][i], source_system,
                                              source_code, target_system, reverse)])
  IN IF f.at = 1 THEN Out(Err(Database(f.raw)), <<"concept_maps">>, call)
     ELSE IF concept_map = None
     THEN Out(Err(NotFound(<<"ConceptMap not found">>)), <<"concept_maps">>, call)
     ELSE Out(Ok(with_parameters(
                <<Parameter_boolean("result", matches /= << >>)>>
                \o (IF matches = << >>
                    THEN <<Parameter_string("message",
                             <<"No translation found for code '", source_code,
                               "' in system '", source_system, "'">>)>>
                    ELSE matches))),
              <<"concept_maps">>, call)

perform_translate(st, concept_map_url, source_system, source_code, target_system, reverse, f) ==
  LET call == TranslateCall(concept_map_url, source_system, source_code, target_system,
                            reverse)
      concept_map == get_concept_map(st, concept_map_url[1], None)
      content == concept_map[1].content
      matches == IF content.group = None THEN << >>
                 ELSE Concat([i \in 1..Len(content.group[1]) |->
                                group_matches(content.group[1][i], source_system,
                                              source_code, target_system, reverse)])
  IN IF concept_map_url = None
     THEN Out(Ok(with_parameters(<<
                Parameter_boolean("result", FALSE),
                Parameter_string("message",
                  <<"ConceptMap URL parameter is required (search not yet implemented)">>)>>)),
              << >>, call)
     ELSE IF f.at = 1 THEN Out(Err(Database(f.raw)), <<"concept_maps">>, call)
     ELSE IF concept_map = None
     THEN Out(Err(NotFound(<<"ConceptMap '", concept_map_url[1], "' not found">>)),
              <<"concept_maps">>, call)
     ELSE Out(Ok(with_parameters(
                <<Parameter_boolean("result", matches /= << >>)>>
                \o (IF matches = << >>
                    THEN <<Parameter_string("message",
                             <<"No translation found for code '", source_code,
                               "' in system '", source_system, "'">>)>>
                    ELSE matches))),
              <<"concept_maps">>, call)

\* GET /ConceptMap/$translate; params is the Query<TranslateParams>
translate_get(st, params, f) ==
  IF params.code = None THEN Required("code parameter required")
  ELSE IF params.system = None THEN Required("system parameter required")
  ELSE perform_translate(st, params.url, params.system[1], params.code[1], params.target,
                         unwrap_or(params.reverse, FALSE), f)

\* POST /ConceptMap/$translate; params is the posted Parameters
translate_post(st, params, f) ==
  LET code == or_else(get_string(params, "code"), get_code(params, "code"))
      system == or_else(get_string(params, "system"), get_uri(params, "system"))
      url == or_else(get_string(params, "url"), get_uri(params, "url"))
  IN IF code = None THEN Required("code parameter required")
     ELSE IF system = None THEN Required("system parameter required")
     ELSE perform_translate(st, url, system[1], code[1], get_string(params, "target"),
                            unwrap_or(get_boolean(params, "reverse"), FALSE), f)

\* the tail of both instance forms
translate_by_id(st, id, system, code, target, reverse, f) ==
  LET concept_map == get_concept_map_by_id(st, id)
  IN IF f.at = 1 THEN Out(Err(Database(f.raw)), <<"concept_maps">>, None)
     ELSE IF concept_map = None
     THEN Out(Err(NotFound(<<"ConceptMap ", id, " not found">>)), <<"concept_maps">>, None)
     ELSE LET o == perform_translate(st, Some(concept_map[1].url), system, code, target,
                                     reverse, Shift(f, 1))
          IN Out(o.res, <<"concept_maps">> \o o.queries, o.call)

\* GET /ConceptMap/{id}/$translate
translate_instance_get(st, id, params, f) ==
  IF params.code = None THEN Required("code parameter required")
  ELSE IF params.system = None THEN Required("system parameter required")
  ELSE translate_by_id(st, id, params.system[1], params.code[1], params.target,
                       unwrap_or(params.reverse, FALSE), f)

\* POST /ConceptMap/{id}/$translate
translate_instance_post(st, id, params, f) ==
  LET code == or_else(get_string(params, "code"), get_code(params, "code"))
      system == or_else(get_string(params, "system"), get_uri(params, "system"))
  IN IF code = None THEN Required("code parameter required")
     ELSE IF system = None THEN Required("system parameter required")
     ELSE translate_by_id(st, id, system[1], code[1], get_string(params, "target"),
                          unwrap_or(get_boolean(params, "reverse"), FALSE), f)

(***************************************************************************)
(* api/operations/expand.rs                                                *)
(* A JSON value is its kind and its content; text that is searched is a    *)
(* sequence of characters; an expansion entry is the object {display,      *)
(* code, system}, each key present or not.  An i64 is cast to usize by     *)
(* 'as', which wraps a negative number; the width is scaled to UsizeBits.  *)
(***************************************************************************)
UsizeBits == 8

DefaultOffset == 0

DefaultCount == 100

\* serde_json::Value: the kind, and the content under the key of that kind
JsonString(s) == [kind |-> "string", text |-> s, number |-> 0, items |-> << >>]

JsonNumber(n) == [kind |-> "number", text |-> << >>, number |-> n, items |-> << >>]

JsonArray(items) == [kind |-> "array", text |-> << >>, number |-> 0, items |-> items]

\* Option<&Value>::and_then(|v| v.as_str())
as_str(o) == IF o /= None /\ o[1].kind = "string" THEN Some(o[1].text) ELSE None

\* Option<&Value>::and_then(|c| c.as_array())
as_array(o) == IF o /= None /\ o[1].kind = "array" THEN Some(o[1].items) ELSE None

\* SELECT expansion FROM value_set_expansions WHERE value_set_id = $1
get_value_set_expansion(st, value_set_id) ==
  LET hits == {r \in st.value_set_expansions : r.value_set_id = value_set_id}
      json == (CHOOSE r \in hits : TRUE).expansion
      contains == as_array(json.contains)
  IN IF hits = {} THEN None
     ELSE IF contains /= None THEN Some(contains[1])
     ELSE Some(<< >>)

to_lowercase_char(c) ==
  CASE c = "A" -> "a"
    [] c = "B" -> "b"
    [] OTHER -> c

\* str::to_lowercase
to_lowercase(s) == [i \in 1..Len(s) |-> to_lowercase_char(s[i])]

\* str::contains(&str): pat occurs in s as a contiguous run
str_contains(s, pat) ==
  \E i \in 0..(Len(s) - Len(pat)) : SubSeq(s, i + 1, i + Len(pat)) = pat

\* i64 as usize
as_usize(x) == x % (2 ^ UsizeBits)

\* Iterator::skip
skip(s, n) == IF n >= Len(s) THEN << >> ELSE SubSeq(s, n + 1, Len(s))

\* Iterator::take
take(s, n) == IF n >= Len(s) THEN s ELSE SubSeq(s, 1, n)

\* the filter tested on the code as well when the display does not match
retain_display_or_code(entry, filter_lower) ==
  LET display == as_str(entry.display)
      code == as_str(entry.code)
  IN \/ display /= None /\ str_contains(to_lowercase(display[1]), filter_lower)
     \/ code /= None /\ str_contains(to_lowercase(code[1]), filter_lower)

\* the closure of expansion_entries.retain
retain(entry, filter_lower) ==
  LET display == as_str(entry.display)
      code == as_str(entry.code)
  IN IF display /= None THEN str_contains(to_lowercase(display[1]), filter_lower)
     ELSE IF code /= None THEN str_contains(to_lowercase(code[1]), filter_lower)
     ELSE FALSE

\* the page cut to count entries before the offset is skipped
paginate_take_then_skip(expansion_entries, offset, count) ==
  skip(take(expansion_entries, count), offset)

\* expansion_entries.into_iter().skip(offset).take(count).collect()
paginate(expansion_entries, offset, count) == take(skip(expansion_entries, offset), count)

ExpandCall(url, params) == Some([url |-> url, params |-> params])

\* 'total' taken from the page instead of the filtered sequence
perform_expand_page_total(st, url, params, gen, f) ==
  LET call == ExpandCall(url, params)
      value_set == get_value_set(st, url, None)
      fetched == unwrap_or(get_value_set_expansion(st, value_set[1].id), << >>)
      expansion_entries ==
        IF params.filter /= None
        THEN SelectSeq(fetched, LAMBDA entry : retain(entry, to_lowercase(params.filter[1])))
        ELSE fetched
      offset == as_usize(unwrap_or(params.offset, DefaultOffset))
      count == as_usize(unwrap_or(params.count, DefaultCount))
      paginated_entries == paginate(expansion_entries, offset, count)
      total == Len(paginated_entries)
      expansion == [identifier |-> <<"urn:uuid:", gen.uuid>>,
                    timestamp |-> gen.now,
                    total |-> total,
                    offset |-> offset,
                    parameter |-> << >>,
                    contains |-> paginated_entries]
  IN IF f.at = 1 THEN Out(Err(Database(f.raw)), <<"value_sets">>, call)
     ELSE IF value_set = None
     THEN Out(Err(NotFound(<<"ValueSet '", url, "' not found">>)), <<"value_sets">>, call)
     ELSE IF f.at = 2
     THEN Out(Err(Database(f.raw)), <<"value_sets", "value_set_expansions">>, call)
     ELSE Out(Ok(("expansion" :> expansion) @@ value_set[1].content),
              <<"value_sets", "value_set_expansions">>, call)

\* gen is what the invocation generates: the Uuid::new_v4() and the Utc::now()
perform_expand(st, url, params, gen, f) ==
  LET call == ExpandCall(url, params)
      value_set == get_value_set(st, url, None)
      fetched == unwrap_or(get_value_set_expansion(st, value_set[1].id), << >>)
      expansion_entries ==
        IF params.filter /= None
        THEN SelectSeq(fetched, LAMBDA entry : retain(entry, to_lowercase(params.filter[1])))
        ELSE fetched
      total == Len(expansion_entries)
      offset == as_usize(unwrap_or(params.offset, DefaultOffset))
      count == as_usize(unwrap_or(params.count, DefaultCount))
      paginated_entries == paginate(expansion_entries, offset, count)
      expansion == [identifier |-> <<"urn:uuid:", gen.uuid>>,
                    timestamp |-> gen.now,
                    total |-> total,
                    offset |-> offset,
                    parameter |-> << >>,
                    contains |-> paginated_entries]
  IN IF f.at = 1 THEN Out(Err(Database(f.raw)), <<"value_sets">>, call)
     ELSE IF value_set = None
     THEN Out(Err(NotFound(<<"ValueSet '", url, "' not found">>)), <<"value_sets">>, call)
     ELSE IF f.at = 2
     THEN Out(Err(Database(f.raw)), <<"value_sets", "value_set_expansions">>, call)
     ELSE Out(Ok(("expansion" :> expansion) @@ value_set[1].content),
              <<"value_sets", "value_set_expansions">>, call)

\* GET /ValueSet/$expand; params is the Query<ExpandParams>
expand_get(st, params, gen, f) ==
  IF params.url = None THEN Required("url parameter required")
  ELSE perform_expand(st, params.url[1], params, gen, f)

\* POST /ValueSet/$expand; params is the posted Parameters
expand_post(st, params, gen, f) ==
  LET url == or_else(get_string(params, "url"), get_uri(params, "url"))
      expand_params == [url |-> url, filter |-> get_string(params, "filter"),
                        offset |-> None, count |-> None]
  IN IF url = None THEN Required("url parameter required")
     ELSE perform_expand(st, url[1], expand_params, gen, f)

\* GET /ValueSet/{id}/$expand
expand_instance_get(st, id, params, gen, f) ==
  LET value_set == get_value_set_by_id(st, id)
  IN IF f.at = 1 THEN Out(Err(Database(f.raw)), <<"value_sets">>, None)
     ELSE IF value_set = None
     THEN Out(Err(NotFound(<<"ValueSet ", id, " not found">>)), <<"value_sets">>, None)
     ELSE LET o == perform_expand(st, value_set[1].url, params, gen, Shift(f, 1))
          IN Out(o.res, <<"value_sets">> \o o.queries, o.call)

\* POST /ValueSet/{id}/$expand
expand_instance_post(st, id, params, gen, f) ==
  LET value_set == get_value_set_by_id(st, id)
      expand_params == [url |-> Some(value_set[1].url),
                        filter |-> get_string(params, "filter"),
                        offset |-> None, count |-> None]
  IN IF f.at = 1 THEN Out(Err(Database(f.raw)), <<"value_sets">>, None)
     ELSE IF value_set = None
     THEN Out(Err(NotFound(<<"ValueSet ", id, " not found">>)), <<"value_sets">>, None)
     ELSE LET o == perform_expand(st, value_set[1].url, expand_params, gen, Shift(f, 1))
          IN Out(o.res, <<"value_sets">> \o o.queries, o.call)

\* the route table of operation_routes for $expand
Expand(st, form, id, input, gen, f) ==
  CASE form = "get" -> expand_get(st, input, gen, f)
    [] form = "post" -> expand_post(st, input, gen, f)
    [] form = "instance_get" -> expand_instance_get(st, id[1], input, gen, f)
    [] form = "instance_post" -> expand_instance_post(st, id[1], input, gen, f)

(***************************************************************************)
(* api/operations/lookup.rs                                                *)
(* A Concept row of a Store that $lookup reads also carries its definition *)
(* and its properties, a JSON value whose members, when it is an object,   *)
(* are kept in the order the map iterates them.                            *)
(***************************************************************************)
JsonObject(members) == [kind |-> "object", text |-> << >>, number |-> 0, items |-> members]

\* Value::as_object
as_object(json) == IF json.kind = "object" THEN Some(json.items) ELSE None

\* Value::to_string: the JSON text of a string or of a one-digit number
json_to_string(json) ==
  IF json.kind = "string" THEN <<"\"">> \o json.text \o <<"\"">>
  ELSE SubSeq(<<"0", "1", "2", "3", "4", "5", "6", "7", "8", "9">>,
              json.number + 1, json.number + 1)

LookupCall(system, code, version) ==
  Some([system |-> system, code |-> code, version |-> version])

\* the 'display' Parameter left out when the Concept has no display
perform_lookup_display_if_any(st, system, code, version, f) ==
  LET call == LookupCall(system, code, version)
      code_system == get_code_system(st, system, version)
      concept == get_concept(st, code_system[1].id, code)
      props_obj == IF concept[1].properties = None THEN None
                   ELSE as_object(concept[1].properties[1])
  IN IF f.at = 1 THEN Out(Err(Database(f.raw)), <<"code_systems">>, call)
     ELSE IF code_system = None
     THEN Out(Err(NotFound(<<"CodeSystem '", system, "' not found">>)),
              <<"code_systems">>, call)
     ELSE IF f.at = 2
     THEN Out(Err(Database(f.raw)), <<"code_systems", "concepts">>, call)
     ELSE IF concept = None
     THEN Out(Err(NotFound(<<"Code '", code, "' not found in system '", system, "'">>)),
              <<"code_systems", "concepts">>, call)
     ELSE Out(Ok(with_parameters(
                <<Parameter_string("name", unwrap_or(code_system[1].name, ""))>>
                \o (IF concept[1].display /= None
                    THEN <<Parameter_string("display", concept[1].display[1])>>
                    ELSE << >>)
                \o (IF concept[1].definition /= None
                    THEN <<Parameter_part("designation",
                             <<Parameter_code("use", "definition"),
                               Parameter_string("value", concept[1].definition[1])>>)>>
                    ELSE << >>)
                \o (IF props_obj /= None
                    THEN [i \in 1..Len(props_obj[1]) |->
                            Parameter_part("property",
                              <<Parameter_code("code", props_obj[1][i].key),
                                Parameter_string("value",
                                  json_to_string(props_obj[1][i].value))>>)]
                    ELSE << >>))),
              <<"code_systems", "concepts">>, call)

perform_lookup(st, system, code, version, f) ==
  LET call == LookupCall(system, code, version)
      code_system == get_code_system(st, system, version)
      concept == get_concept(st, code_system[1].id, code)
      props_obj == IF concept[1].properties = None THEN None
                   ELSE as_object(concept[1].properties[1])
  IN IF f.at = 1 THEN Out(Err(Database(f.raw)), <<"code_systems">>, call)
     ELSE IF code_system = None
     THEN Out(Err(NotFound(<<"CodeSystem '", system, "' not found">>)),
              <<"code_systems">>, call)
     ELSE IF f.at = 2
     THEN Out(Err(Database(f.raw)), <<"code_systems", "concepts">>, call)
     ELSE IF concept = None
     THEN Out(Err(NotFound(<<"Code '", code, "' not found in system '", system, "'">>)),
              <<"code_systems", "concepts">>, call)
     ELSE Out(Ok(with_parameters(
                <<Parameter_string("name", unwrap_or(code_system[1].name, "")),
                  Parameter_string("display", unwrap_or(concept[1].display, ""))>>
                \o (IF concept[1].definition /= None
                    THEN <<Parameter_part("designation",
                             <<Parameter_code("use", "definition"),
                               Parameter_string("value", concept[1].definition[1])>>)>>
                    ELSE << >>)
                \o (IF props_obj /= None
                    THEN [i \in 1..Len(props_obj[1]) |->
                            Parameter_part("property",
                              <<Parameter_code("code", props_obj[1][i].key),
                                Parameter_string("value",
                                  json_to_string(props_obj[1][i].value))>>)]
                    ELSE << >>))),
              <<"code_systems", "concepts">>, call)

\* GET /CodeSystem/$lookup; params is the Query<LookupParams>
lookup_get(st, params, f) ==
  IF params.system = None THEN Required("system parameter required")
  ELSE IF params.code = None THEN Required("code parameter required")
  ELSE perform_lookup(st, params.system[1], params.code[1], params.version, f)

\* POST /CodeSystem/$lookup
lookup_post(st, params, f) ==
  LET system == or_else(get_string(params, "system"), get_uri(params, "system"))
      code == or_else(get_string(params, "code"), get_code(params, "code"))
  IN IF system = None THEN Required("system parameter required")
     ELSE IF code = None THEN Required("code parameter required")
     ELSE perform_lookup(st, system[1], code[1], get_string(params, "version"), f)

\* the tail of both instance forms
lookup_by_id(st, id, code, f) ==
  LET code_system == get_code_system_by_id(st, id)
  IN IF f.at = 1 THEN Out(Err(Database(f.raw)), <<"code_systems">>, None)
     ELSE IF code_system = None
     THEN Out(Err(NotFound(<<"CodeSystem ", id, " not found">>)), <<"code_systems">>, None)
     ELSE LET o == perform_lookup(st, code_system[1].url, code, None, Shift(f, 1))
          IN Out(o.res, <<"code_systems">> \o o.queries, o.call)

\* GET /CodeSystem/{id}/$lookup
lookup_instance_get(st, id, params, f) ==
  IF params.code = None THEN Required("code parameter required")
  ELSE lookup_by_id(st, id, params.code[1], f)

\* POST /CodeSystem/{id}/$lookup
lookup_instance_post(st, id, params, f) ==
  LET code == or_else(get_string(params, "code"), get_code(params, "code"))
  IN IF code = None THEN Required("code parameter required")
     ELSE lookup_by_id(st, id, code[1], f)

\* the route table of operation_routes for $lookup
Lookup(st, form, id, input, f) ==
  CASE form = "get" -> lookup_get(st, input, f)
    [] form = "post" -> lookup_post(st, input, f)
    [] form = "instance_get" -> lookup_instance_get(st, id[1], input, f)
    [] form = "instance_post" -> lookup_instance_post(st, id[1], input, f)

(***************************************************************************)
(* The Stores and the inputs the invocations are drawn from                *)
(***************************************************************************)
Urls == {"http://x/cs", "http://x/none"}

Codes == {"a", "b"}

Versions == {"1.0"}

CodeSystemIds == {"cs-1", "cs-2"}

\* two versions of one url; cs-2 is the more recently updated
cs1 == [id |-> "cs-1", url |-> "http://x/cs", version |-> Some("1.0"),
        name |-> Some("CS"), updated_at |-> 1]

cs2 == [id |-> "cs-2", url |-> "http://x/cs", version |-> Some("2.0"),
        name |-> None, updated_at |-> 2]

DisplayOf(code) == IF code = "a" THEN Some("Alpha") ELSE None

ConceptRows(id, codes) ==
  {[code_system_id |-> id, code |-> c, display |-> DisplayOf(c)] : c \in codes}

ClosureRows(id, pairs) ==
  {[code_system_id |-> id, ancestor_code |-> p[1], descendant_code |-> p[2]] : p \in pairs}

EmptyStore ==
  [code_systems |-> {}, concepts |-> {}, closure_table |-> {}, value_sets |-> {},
   value_set_expansions |-> {}, concept_maps |-> {}]

\* no CodeSystem; one CodeSystem with any concepts and any closure relation over
\* them (reflexive and cyclic rows included); two versions of one url
SubsumesStores ==
  {EmptyStore}
  \cup {[EmptyStore EXCEPT !.code_systems = {cs1},
                           !.concepts = ConceptRows("cs-1", cs),
                           !.closure_table = ClosureRows("cs-1", rel)] :
          cs \in SUBSET Codes, rel \in SUBSET (Codes \X Codes)}
  \cup {[EmptyStore EXCEPT !.code_systems = {cs1, cs2},
                           !.concepts = ConceptRows("cs-1", Codes)
                                          \cup ConceptRows("cs-2", cs),
                           !.closure_table = ClosureRows("cs-1", rel1)
                                               \cup ClosureRows("cs-2", rel2)] :
          cs \in SUBSET Codes,
          rel1 \in SUBSET {<<"a", "b">>, <<"b", "a">>},
          rel2 \in {{}, {<<"a", "b">>}}}

NoCall ==
  [op |-> "none", form |-> "none", id |-> None, input |-> None,
   res |-> Ok(None), response |-> Respond(Ok(None)), queries |-> << >>, call |-> None]

Invocation(op, form, id, input, out) ==
  [op |-> op, form |-> form, id |-> id, input |-> input, res |-> out.res,
   response |-> Respond(out.res), queries |-> out.queries, call |-> out.call]

\* the response is sent and the server takes the next request
Deliver ==
  /\ last /= NoCall
  /\ last' = NoCall
  /\ UNCHANGED store

SubsumesQueries ==
  [system : Opt(Urls), code_a : Opt(Codes), code_b : Opt(Codes), version : Opt(Versions)]

SubsumesBodies ==
  {Envelope(<<s, a, b, v>>) :
     s \in OptParam("system", {"valueString", "valueUri"}, {"http://x/cs"}),
     a \in OptParam("codeA", {"valueString", "valueCode"}, Codes),
     b \in OptParam("codeB", {"valueString", "valueCode"}, Codes),
     v \in OptParam("version", {"valueString"}, Versions)}

SubsumesGet ==
  /\ last = NoCall
  /\ \E params \in SubsumesQueries, f \in Faults :
       /\ last' = Invocation("subsumes", "get", None, params, subsumes_get(store, params, f))
       /\ UNCHANGED store

SubsumesPost ==
  /\ last = NoCall
  /\ \E params \in SubsumesBodies, f \in Faults :
       /\ last' = Invocation("subsumes", "post", None, params, subsumes_post(store, params, f))
       /\ UNCHANGED store

SubsumesInstanceGet ==
  /\ last = NoCall
  /\ \E id \in CodeSystemIds, params \in SubsumesQueries, f \in Faults :
       /\ params.system = None /\ params.version = None
       /\ last' = Invocation("subsumes", "instance_get", Some(id), params,
                             subsumes_instance_get(store, id, params, f))
       /\ UNCHANGED store

SubsumesInstancePost ==
  /\ last = NoCall
  /\ \E id \in CodeSystemIds, params \in SubsumesBodies, f \in Faults :
       /\ get_parameter(params, "system") = None /\ get_parameter(params, "version") = None
       /\ last' = Invocation("subsumes", "instance_post", Some(id), params,
                             subsumes_instance_post(store, id, params, f))
       /\ UNCHANGED store

InitSubsumes == store \in SubsumesStores /\ last = NoCall

NextSubsumes ==
  \/ SubsumesGet
  \/ SubsumesPost
  \/ SubsumesInstanceGet
  \/ SubsumesInstancePost
  \/ Deliver

SpecSubsumes == InitSubsumes /\ [][NextSubsumes]_vars

(***************************************************************************)
(* Claims on $subsumes, under SpecSubsumes                                 *)
(***************************************************************************)
\* the 'outcome' code of a Result, None when it is an error
OutcomeOf(res) == IF res.ok THEN get_code(res.val, "outcome") ELSE None

StoreFailed(inv) == ~inv.res.ok /\ inv.res.err.kind = "Database"

\* the same request with codeA and codeB exchanged
SwapCodes(form, input) ==
  IF form \in {"get", "instance_get"}
  THEN [input EXCEPT !.code_a = input.code_b, !.code_b = input.code_a]
  ELSE LET ps == input.parameter[1]
           swap(n) == IF n = "codeA" THEN "codeB" ELSE IF n = "codeB" THEN "codeA" ELSE n
       IN with_parameters([i \in 1..Len(ps) |-> [ps[i] EXCEPT !.name = swap(ps[i].name)]])

Swapped == Subsumes(store, last.form, last.id, SwapCodes(last.form, last.input), NoFault)

\* the CodeSystem perform_subsumes resolved for the last invocation
ResolvedCodeSystem == get_code_system(store, last.call[1].system, last.call[1].version)

\* C1 as stated: in every call form and for every closure relation the Store
\* holds, when Subsumes(sys, a, b) returns 'subsumes' the same request with the
\* codes exchanged returns 'subsumed-by'.
C1_AntiSymmetric ==
  (last.op = "subsumes" /\ OutcomeOf(last.res) = Some("subsumes"))
    => OutcomeOf(Swapped.res) = Some("subsumed-by")

\* C1 amended: when Subsumes(sys, a, b) returns 'subsumes' and the closure table
\* holds no row (b ancestor-of a) for the resolved CodeSystem, the exchanged
\* request returns 'subsumed-by'; when it holds that row too, the exchanged
\* request returns 'subsumes' as well.
C1_AntiSymmetricUnlessCyclic ==
  (last.op = "subsumes" /\ OutcomeOf(last.res) = Some("subsumes"))
    => LET reverse_row == closure_row(store, ResolvedCodeSystem[1].id,
                                      last.call[1].code_b, last.call[1].code_a)
       IN OutcomeOf(Swapped.res) =
            (IF reverse_row THEN Some("subsumes") ELSE Some("subsumed-by"))

C1_Witness ==
  /\ last.op = "subsumes"
  /\ last.form = "instance_post"
  /\ OutcomeOf(last.res) = Some("subsumes")
  /\ ~closure_row(store, ResolvedCodeSystem[1].id, last.call[1].code_b, last.call[1].code_a)
  /\ OutcomeOf(Swapped.res) = Some("subsumed-by")

\* a $subsumes invocation that reached perform_subsumes with codeA = codeB on a
\* CodeSystem that exists, no Store query failing
SameCodeOnExistingSystem ==
  /\ last.op = "subsumes"
  /\ last.call /= None
  /\ last.call[1].code_a = last.call[1].code_b
  /\ ResolvedCodeSystem /= None
  /\ ~StoreFailed(last)

\* C2 as stated: for all codes, Subsumes(system, code, code) on an existing
\* CodeSystem returns 'equivalent' and issues no closure-table query.
C2_SameCodeEquivalent ==
  SameCodeOnExistingSystem
    => /\ OutcomeOf(last.res) = Some("equivalent")
       /\ \A i \in 1..Len(last.queries) : last.queries[i] /= "closure_table"

\* C2 amended: for every code that is a Concept of the resolved CodeSystem,
\* Subsumes(system, code, code) returns 'equivalent', whether or not a closure
\* row exists for the pair, and issues no closure-table query; for a code that
\* is not a Concept of it the result is a NotFound error.
C2_ExistingSameCodeEquivalent ==
  SameCodeOnExistingSystem
    => /\ \A i \in 1..Len(last.queries) : last.queries[i] /= "closure_table"
       /\ IF get_concept(store, ResolvedCodeSystem[1].id, last.call[1].code_a) /= None
          THEN OutcomeOf(last.res) = Some("equivalent")
          ELSE ~last.res.ok /\ last.res.err.kind = "NotFound"

C2_Witness ==
  /\ SameCodeOnExistingSystem
  /\ closure_row(store, ResolvedCodeSystem[1].id, last.call[1].code_a, last.call[1].code_a)
  /\ OutcomeOf(last.res) = Some("equivalent")


\* the last invocation, its failing Store query failing with the raw error
\* 'raw' instead
WithRawError(raw) ==
  Subsumes(store, last.form, last.id, last.input, [at |-> Len(last.queries), raw |-> raw])

\* C5: when a Store query fails, the response sent to the caller does not
\* depend on the raw storage-engine error: the same invocation failing at the
\* same query with any other raw error yields the identical response.
C5_ResponseHidesRawError ==
  (last.op = "subsumes" /\ StoreFailed(last)) =>
    \A raw \in RawErrors : Respond(WithRawError(raw).res) = last.response

(***************************************************************************)
(* $validate-code and $translate: Stores, inputs, actions                  *)
(***************************************************************************)
ValueSetUrls == {"http://x/vs", "http://x/none"}

ValueSetIds == {"vs-1", "vs-2"}

Displays == {"Alpha", "Beta"}

vs1 == [id |-> "vs-1", url |-> "http://x/vs", version |-> Some("1.0"),
        name |-> Some("VS"), updated_at |-> 1,
        content |-> [resourceType |-> "ValueSet", url |-> "http://x/vs"]]

\* no CodeSystem, one, or two versions of one url, each with any of the concepts;
\* with and without the ValueSet
ValidateStores ==
  LET code_system_parts ==
        {[EmptyStore EXCEPT !.code_systems = {cs1}, !.concepts = ConceptRows("cs-1", c1)] :
           c1 \in SUBSET Codes}
        \cup {[EmptyStore EXCEPT !.code_systems = {cs1, cs2},
                                 !.concepts = ConceptRows("cs-1", c1)
                                                \cup ConceptRows("cs-2", c2)] :
                c1 \in SUBSET Codes, c2 \in SUBSET Codes}
        \cup {EmptyStore}
  IN {[st EXCEPT !.value_sets = v] : st \in code_system_parts, v \in {{}, {vs1}}}

ValidateQueries ==
  [url : Opt(Urls), system : Opt(Urls), code : Opt(Codes), version : Opt(Versions),
   display : Opt(Displays)]

ValueSetValidateQueries ==
  [url : Opt(ValueSetUrls), system : Opt(Urls), code : Opt(Codes), version : {None},
   display : Opt(Displays)]

ValidateBodies ==
  {Envelope(<<s, u, c, v, d>>) :
     s \in OptParam("system", {"valueString", "valueUri"}, {"http://x/cs"}),
     u \in OptParam("url", {"valueString", "valueUri"}, {"http://x/cs"}),
     c \in OptParam("code", {"valueString", "valueCode"}, Codes),
     v \in OptParam("version", {"valueString"}, Versions),
     d \in OptParam("display", {"valueString"}, Displays)}

ValueSetValidateBodies ==
  {Envelope(<<u, s, c, d>>) :
     u \in OptParam("url", {"valueString", "valueUri"}, {"http://x/vs"}),
     s \in OptParam("system", {"valueString", "valueUri"}, Urls),
     c \in OptParam("code", {"valueString", "valueCode"}, Codes),
     d \in OptParam("display", {"valueString"}, Displays)}

ValidateCodeCsGet ==
  /\ last = NoCall
  /\ \E params \in ValidateQueries, f \in FaultsUpTo(2) :
       /\ last' = Invocation("validate-code-cs", "get", None, params,
                             validate_code_cs_get(store, params, f))
       /\ UNCHANGED store

ValidateCodeCsPost ==
  /\ last = NoCall
  /\ \E params \in ValidateBodies, f \in FaultsUpTo(2) :
       /\ last' = Invocation("validate-code-cs", "post", None, params,
                             validate_code_cs_post(store, params, f))
       /\ UNCHANGED store

ValidateCodeCsInstanceGet ==
  /\ last = NoCall
  /\ \E id \in CodeSystemIds, params \in ValidateQueries, f \in FaultsUpTo(3) :
       /\ params.system = None /\ params.url = None /\ params.version = None
       /\ last' = Invocation("validate-code-cs", "instance_get", Some(id), params,
                             validate_code_cs_instance_get(store, id, params, f))
       /\ UNCHANGED store

ValidateCodeCsInstancePost ==
  /\ last = NoCall
  /\ \E id \in CodeSystemIds, params \in ValidateBodies, f \in FaultsUpTo(3) :
       /\ get_parameter(params, "system") = None
       /\ get_parameter(params, "url") = None
       /\ get_parameter(params, "version") = None
       /\ last' = Invocation("validate-code-cs", "instance_post", Some(id), params,
                             validate_code_cs_instance_post(store, id, params, f))
       /\ UNCHANGED store

ValidateCodeVsGet ==
  /\ last = NoCall
  /\ \E params \in ValueSetValidateQueries, f \in FaultsUpTo(2) :
       /\ last' = Invocation("validate-code-vs", "get", None, params,
                             validate_code_vs_get(store, params, f))
       /\ UNCHANGED store

ValidateCodeVsPost ==
  /\ last = NoCall
  /\ \E params \in ValueSetValidateBodies, f \in FaultsUpTo(2) :
       /\ last' = Invocation("validate-code-vs", "post", None, params,
                             validate_code_vs_post(store, params, f))
       /\ UNCHANGED store

ValidateCodeVsInstanceGet ==
  /\ last = NoCall
  /\ \E id \in ValueSetIds, params \in ValueSetValidateQueries, f \in FaultsUpTo(3) :
       /\ params.url = None
       /\ last' = Invocation("validate-code-vs", "instance_get", Some(id), params,
                             validate_code_vs_instance_get(store, id, params, f))
       /\ UNCHANGED store

ValidateCodeVsInstancePost ==
  /\ last = NoCall
  /\ \E id \in ValueSetIds, params \in ValueSetValidateBodies, f \in FaultsUpTo(3) :
       /\ get_parameter(params, "url") = None
       /\ last' = Invocation("validate-code-vs", "instance_post", Some(id), params,
                             validate_code_vs_instance_post(store, id, params, f))
       /\ UNCHANGED store

\* the route table of operation_routes for $validate-code
ValidateCode(st, op, form, id, input, f) ==
  CASE op = "validate-code-cs" /\ form = "get" -> validate_code_cs_get(st, input, f)
    [] op = "validate-code-cs" /\ form = "post" -> validate_code_cs_post(st, input, f)
    [] op = "validate-code-cs" /\ form = "instance_get" ->
         validate_code_cs_instance_get(st, id[1], input, f)
    [] op = "validate-code-cs" /\ form = "instance_post" ->
         validate_code_cs_instance_post(st, id[1], input, f)
    [] op = "validate-code-vs" /\ form = "get" -> validate_code_vs_get(st, input, f)
    [] op = "validate-code-vs" /\ form = "post" -> validate_code_vs_post(st, input, f)
    [] op = "validate-code-vs" /\ form = "instance_get" ->
         validate_code_vs_instance_get(st, id[1], input, f)
    [] op = "validate-code-vs" /\ form = "instance_post" ->
         validate_code_vs_instance_post(st, id[1], input, f)

InitValidate == store \in ValidateStores /\ last = NoCall

NextValidate ==
  \/ ValidateCodeCsGet
  \/ ValidateCodeCsPost
  \/ ValidateCodeCsInstanceGet
  \/ ValidateCodeCsInstancePost
  \/ ValidateCodeVsGet
  \/ ValidateCodeVsPost
  \/ ValidateCodeVsInstanceGet
  \/ ValidateCodeVsInstancePost
  \/ Deliver

SpecValidate == InitValidate /\ [][NextValidate]_vars

ConceptMapUrls == {"http://x/cm", "http://x/none"}

ConceptMapIds == {"cm-1", "cm-2"}

Systems == {"http://x/cs", "http://x/t"}

MaxGroups == 2

t_x == [code |-> Some("x"), display |-> Some("Ex"), equivalence |-> None]

t_y == [code |-> Some("y"), display |-> None, equivalence |-> Some("wider")]

t_none == [code |-> None, display |-> Some("No code"), equivalence |-> None]

g_forward ==
  [source |-> Some("http://x/cs"), target |-> Some("http://x/t"),
   element |-> Some(<<[code |-> Some("a"), target |-> Some(<<t_x, t_none, t_y>>)],
                      [code |-> Some("b"), target |-> None],
                      [code |-> Some("a"), target |-> Some(<<t_x>>)]>>)]

g_back ==
  [source |-> Some("http://x/t"), target |-> Some("http://x/cs"),
   element |-> Some(<<[code |-> Some("b"), target |-> Some(<<t_y>>)],
                      [code |-> None, target |-> Some(<<t_x>>)]>>)]

g_bare == [source |-> None, target |-> None, element |-> None]

Groups == {g_forward, g_back, g_bare}

\* the documents: no group array, or 1..MaxGroups of the groups in any order
ConceptMapContents ==
  {[group |-> None]}
  \cup {[group |-> Some(gs)] : gs \in UNION {[1..n -> Groups] : n \in 1..MaxGroups}}

cm(id, version, updated_at, content) ==
  [id |-> id, url |-> "http://x/cm", version |-> Some(version), name |-> None,
   updated_at |-> updated_at, content |-> content]

TranslateStores ==
  {EmptyStore}
  \cup {[EmptyStore EXCEPT !.concept_maps = {cm("cm-1", "1.0", 1, c)}] :
          c \in ConceptMapContents}
  \cup {[EmptyStore EXCEPT !.concept_maps = {cm("cm-1", "1.0", 1, c),
                                             cm("cm-2", "2.0", 2, [group |-> Some(<<g_back>>)])}] :
          c \in ConceptMapContents}

TranslateQueries ==
  [url : Opt(ConceptMapUrls), code : Opt(Codes), system : Opt(Systems),
   target : Opt(Systems), reverse : Opt(BOOLEAN)]

TranslateBodies ==
  {Envelope(<<u, c, s, t, r>>) :
     u \in OptParam("url", {"valueString", "valueUri"}, {"http://x/cm"}),
     c \in OptParam("code", {"valueString", "valueCode"}, {"a"}),
     s \in OptParam("system", {"valueString", "valueUri"}, Systems),
     t \in OptParam("target", {"valueString"}, {"http://x/t"}),
     r \in OptParam("reverse", {"valueBoolean"}, BOOLEAN)}

TranslateGet ==
  /\ last = NoCall
  /\ \E params \in TranslateQueries, f \in FaultsUpTo(1) :
       /\ last' = Invocation("translate", "get", None, params, translate_get(store, params, f))
       /\ UNCHANGED store

TranslatePost ==
  /\ last = NoCall
  /\ \E params \in TranslateBodies, f \in FaultsUpTo(1) :
       /\ last' = Invocation("translate", "post", None, params,
                             translate_post(store, params, f))
       /\ UNCHANGED store

TranslateInstanceGet ==
  /\ last = NoCall
  /\ \E id \in ConceptMapIds, params \in TranslateQueries, f \in FaultsUpTo(2) :
       /\ params.url = None
       /\ last' = Invocation("translate", "instance_get", Some(id), params,
                             translate_instance_get(store, id, params, f))
       /\ UNCHANGED store

TranslateInstancePost ==
  /\ last = NoCall
  /\ \E id \in ConceptMapIds, params \in TranslateBodies, f \in FaultsUpTo(2) :
       /\ get_parameter(params, "url") = None
       /\ last' = Invocation("translate", "instance_post", Some(id), params,
                             translate_instance_post(store, id, params, f))
       /\ UNCHANGED store

InitTranslate == store \in TranslateStores /\ last = NoCall

NextTranslate ==
  \/ TranslateGet
  \/ TranslatePost
  \/ TranslateInstanceGet
  \/ TranslateInstancePost
  \/ Deliver

SpecTranslate == InitTranslate /\ [][NextTranslate]_vars

\* $validate-code and $translate together
InitNegative == store \in ValidateStores \cup TranslateStores /\ last = NoCall

NextNegative ==
  \/ ValidateCodeCsGet
  \/ ValidateCodeCsPost
  \/ ValidateCodeCsInstanceGet
  \/ ValidateCodeCsInstancePost
  \/ ValidateCodeVsGet
  \/ ValidateCodeVsPost
  \/ ValidateCodeVsInstanceGet
  \/ ValidateCodeVsInstancePost
  \/ TranslateGet
  \/ TranslatePost
  \/ TranslateInstanceGet
  \/ TranslateInstancePost
  \/ Deliver

SpecNegative == InitNegative /\ [][NextNegative]_vars

(***************************************************************************)
(* Claims on $validate-code and $translate                                 *)
(***************************************************************************)
IsNotFound(inv) == ~inv.res.ok /\ inv.res.err.kind = "NotFound"

IsBadRequest(inv) == ~inv.res.ok /\ inv.res.err.kind = "BadRequest"

IsInstance(inv) == inv.form \in {"instance_get", "instance_post"}

NegativeOps == {"validate-code-cs", "validate-code-vs", "translate"}

\* the table an instance form of the operation resolves its path-bound id in
RowsFor(op) ==
  CASE op = "validate-code-cs" -> store.code_systems
    [] op = "validate-code-vs" -> store.value_sets
    [] op = "translate" -> store.concept_maps

\* the path-bound identifier names no stored resource
MissingById == IsInstance(last) /\ by_id(RowsFor(last.op), last.id[1]) = None

\* Translate reached perform_translate with a ConceptMap url that is not stored
MissingMapByUrl ==
  /\ last.op = "translate"
  /\ last.call /= None
  /\ last.call[1].concept_map_url /= None
  /\ get_concept_map(store, last.call[1].concept_map_url[1], None) = None

\* the CodeSystem perform_validate_code resolved, and the Concept in it
ValidatedCodeSystem == get_code_system(store, last.call[1].system, last.call[1].version)

ValidatedConcept == get_concept(store, ValidatedCodeSystem[1].id, last.call[1].code)

CodeExists == ValidatedCodeSystem /= None /\ ValidatedConcept /= None

\* C3 as stated: Validate-Code and Translate, in every call form, never answer
\* with a NotFound error.
C3_NeverNotFound == last.op \in NegativeOps => ~IsNotFound(last)

\* C3 amended: Validate-Code reports a missing CodeSystem or code, and
\* Translate a missing ConceptMap identifier, as a successful response with
\* result=false; a NotFound error is returned exactly when the path-bound
\* identifier of an instance form names no stored resource or when Translate
\* names a ConceptMap url that is not stored (all required arguments present,
\* no Store query failing).
C3_NotFoundOnlyForNamedResource ==
  last.op \in NegativeOps =>
    /\ IsNotFound(last) <=>
         (~IsBadRequest(last) /\ ~StoreFailed(last) /\ (MissingById \/ MissingMapByUrl))
    /\ (last.res.ok /\ last.op /= "translate" /\ ~CodeExists)
         => get_boolean(last.res.val, "result") = Some(FALSE)
    /\ (last.res.ok /\ last.op = "translate" /\ last.call[1].concept_map_url = None)
         => get_boolean(last.res.val, "result") = Some(FALSE)

C3_Witness ==
  /\ last.op = "validate-code-vs"
  /\ last.form = "post"
  /\ last.res.ok
  /\ ValidatedCodeSystem = None
  /\ get_boolean(last.res.val, "result") = Some(FALSE)

\* C4: the CodeSystem variant of Validate-Code, having resolved (system, code)
\* with no Store query failing, returns a successful envelope; its 'result' is
\* true exactly when the CodeSystem and the code both exist, and when it is
\* false the envelope carries a 'message' Parameter.
C4_NegativeResultNotError ==
  (last.op = "validate-code-cs" /\ last.call /= None /\ ~StoreFailed(last)) =>
    /\ last.res.ok
    /\ get_boolean(last.res.val, "result") = Some(CodeExists)
    /\ ~CodeExists => get_string(last.res.val, "message") /= None

C4_Witness ==
  /\ last.op = "validate-code-cs"
  /\ last.form = "get"
  /\ last.res.ok
  /\ ValidatedCodeSystem /= None
  /\ ValidatedConcept = None
  /\ get_boolean(last.res.val, "result") = Some(FALSE)
  /\ get_string(last.res.val, "message") /= None

\* what the CodeSystem variant returns for the system, code and display of the
\* last ValueSet-variant invocation, with no version
CodeSystemVariant ==
  validate_code_cs_get(store,
    [url |-> None, system |-> Some(last.call[1].system), code |-> Some(last.call[1].code),
     version |-> None, display |-> last.call[1].display],
    NoFault)

\* C10 as stated: the envelope of the ValueSet variant equals the envelope the
\* CodeSystem variant returns for the same system, code and display.
C10_SameEnvelope ==
  (last.op = "validate-code-vs" /\ last.res.ok) => last.res.val = CodeSystemVariant.res.val

\* C10 amended: the ValueSet variant's 'result' equals the CodeSystem variant's
\* 'result' for the same system, code and display with no version; when it is
\* false the two envelopes are equal, and when it is true the ValueSet variant
\* returns only result=true and one fixed 'message', without the 'display'
\* Parameter and the display-mismatch message of the CodeSystem variant.
C10_SameResultFixedPositive ==
  (last.op = "validate-code-vs" /\ last.res.ok) =>
    /\ get_boolean(last.res.val, "result") = get_boolean(CodeSystemVariant.res.val, "result")
    /\ IF get_boolean(last.res.val, "result") = Some(TRUE)
       THEN last.res.val = with_parameters(<<
              Parameter_boolean("result", TRUE),
              Parameter_string("message",
                <<"Code validation passed (ValueSet expansion not yet implemented)">>)>>)
       ELSE last.res.val = CodeSystemVariant.res.val

C10_Witness ==
  /\ last.op = "validate-code-vs"
  /\ last.form = "instance_post"
  /\ last.res.ok
  /\ get_boolean(last.res.val, "result") = Some(TRUE)
  /\ get_string(CodeSystemVariant.res.val, "display") = Some("Alpha")

(***************************************************************************)
(* $expand: the Stores, the inputs and the invocations                     *)
(***************************************************************************)
MaxEntries == 3

LargeLen == 150

Uuids == {"u1", "u2"}

Times == {"t1", "t2"}

Gens == [uuid : Uuids, now : Times]

entry(display, code, system) == [display |-> display, code |-> code, system |-> system]

x_system == Some(JsonString(<<"x">>))

\* a display and a code, both text
e_display == entry(Some(JsonString(<<"A", "b">>)), Some(JsonString(<<"b">>)), x_system)

e_other_display == entry(Some(JsonString(<<"B">>)), Some(JsonString(<<"a">>)), x_system)

\* no display key
e_code_only == entry(None, Some(JsonString(<<"A">>)), x_system)

\* a display that is not text
e_number_display == entry(Some(JsonNumber(7)), Some(JsonString(<<"a", "b">>)), x_system)

\* neither key
e_bare == entry(None, None, x_system)

EntryPool == {e_display, e_other_display, e_code_only, e_number_display, e_bare}

\* the sequences of up to MaxEntries different entries, in every order
Expansions ==
  UNION {{s \in [1..n -> EntryPool] : \A i, j \in 1..n : i /= j => s[i] /= s[j]} :
           n \in 0..MaxEntries}

\* more entries than the default count; entry k carries k
LargeExpansion ==
  [k \in 1..LargeLen |-> entry(None, Some(JsonString(<<"a">>)), Some(JsonNumber(k)))]

vs2 == [id |-> "vs-2", url |-> "http://x/vs", version |-> Some("2.0"),
        name |-> None, updated_at |-> 2,
        content |-> [resourceType |-> "ValueSet", url |-> "http://x/vs"]]

\* a ValueSet whose stored document already holds an expansion
vs1_expanded ==
  [vs1 EXCEPT !.content = ("expansion" :> [total |-> 9]) @@ vs1.content]

ExpansionRow(id, json) == [value_set_id |-> id, expansion |-> json]

ExpansionDocuments ==
  {[contains |-> None], [contains |-> Some(JsonString(<<"x">>))]}
  \cup {[contains |-> Some(JsonArray(e))] : e \in Expansions}
  \cup {[contains |-> Some(JsonArray(LargeExpansion))]}

\* no ValueSet; one ValueSet without and with an expansion row of every
\* document; a stored document that holds an expansion; two versions of one url
ExpandStores ==
  {EmptyStore, [EmptyStore EXCEPT !.value_sets = {vs1}]}
  \cup {[EmptyStore EXCEPT !.value_sets = {vs1},
                           !.value_set_expansions = {ExpansionRow("vs-1", d)}] :
          d \in ExpansionDocuments}
  \cup {[EmptyStore EXCEPT !.value_sets = {vs1_expanded},
                           !.value_set_expansions =
                             {ExpansionRow("vs-1", [contains |-> Some(JsonArray(<<e_display>>))])}]}
  \cup {[EmptyStore EXCEPT !.value_sets = {vs1, vs2},
                           !.value_set_expansions =
                             {ExpansionRow("vs-1", [contains |-> Some(JsonArray(<<e_display>>))])}
                             \cup r2] :
          r2 \in {{}, {ExpansionRow("vs-2",
                         [contains |-> Some(JsonArray(<<e_code_only, e_bare>>))])}}}

Filters == {<< >>, <<"a">>, <<"A", "b">>}

Offsets == {-1, 0, 1, 3, 100}

Counts == {-1, 0, 2, 100}

ExpandQueries ==
  [url : Opt(ValueSetUrls), filter : Opt(Filters), offset : Opt(Offsets), count : Opt(Counts)]

\* the optional Parameters of a posted envelope, by name
ExpandUrlParams == OptParam("url", {"valueString", "valueUri"}, {"http://x/vs"})

ExpandFilterParams == OptParam("filter", {"valueString", "valueCode"}, {<<"a">>})

ExpandOffsetParams == OptParam("offset", {"valueInteger"}, {1})

ExpandCountParams == OptParam("count", {"valueInteger"}, {1, 2})

\* an expansion that drops the stored expansions once it has answered
ExpandGet_discarding ==
  /\ last = NoCall
  /\ \E params \in ExpandQueries, gen \in Gens, f \in FaultsUpTo(2) :
       /\ last' = Invocation("expand", "get", None, params,
                             expand_get(store, params, gen, f))
       /\ store' = [store EXCEPT !.value_set_expansions = {}]

ExpandGet ==
  /\ last = NoCall
  /\ \E params \in ExpandQueries, gen \in Gens, f \in FaultsUpTo(2) :
       /\ last' = Invocation("expand", "get", None, params,
                             expand_get(store, params, gen, f))
       /\ UNCHANGED store

ExpandPost ==
  /\ last = NoCall
  /\ \E u \in ExpandUrlParams, t \in ExpandFilterParams, o \in ExpandOffsetParams,
        c \in ExpandCountParams, gen \in Gens, f \in FaultsUpTo(2) :
       LET params == Envelope(<<u, t, o, c>>)
       IN /\ last' = Invocation("expand", "post", None, params,
                                expand_post(store, params, gen, f))
          /\ UNCHANGED store

ExpandInstanceGet ==
  /\ last = NoCall
  /\ \E id \in ValueSetIds, params \in ExpandQueries, gen \in Gens, f \in FaultsUpTo(3) :
       /\ params.url = None
       /\ last' = Invocation("expand", "instance_get", Some(id), params,
                             expand_instance_get(store, id, params, gen, f))
       /\ UNCHANGED store

ExpandInstancePost ==
  /\ last = NoCall
  /\ \E id \in ValueSetIds, t \in ExpandFilterParams, o \in ExpandOffsetParams,
        c \in ExpandCountParams, gen \in Gens, f \in FaultsUpTo(3) :
       LET params == Envelope(<<t, o, c>>)
       IN /\ last' = Invocation("expand", "instance_post", Some(id), params,
                                expand_instance_post(store, id, params, gen, f))
          /\ UNCHANGED store

InitExpand == store \in ExpandStores /\ last = NoCall

NextExpand ==
  \/ ExpandGet
  \/ ExpandPost
  \/ ExpandInstanceGet
  \/ ExpandInstancePost
  \/ Deliver

SpecExpand == InitExpand /\ [][NextExpand]_vars

(***************************************************************************)
(* Claims on $expand                                                       *)
(***************************************************************************)
\* the ExpandParams the last invocation handed to perform_expand
ExpandedParams == last.call[1].params

\* the ValueSet perform_expand resolved and the entries stored for it
ExpandedValueSet == get_value_set(store, last.call[1].url, None)

StoredEntries ==
  unwrap_or(get_value_set_expansion(store, ExpandedValueSet[1].id), << >>)

ExpansionOf(out) == out.res.val.expansion

Min2(a, b) == IF a <= b THEN a ELSE b

Max2(a, b) == IF a >= b THEN a ELSE b

\* the indices of the stored entries that pass the filter, in increasing order
PassingPositions(filter) ==
  SelectSeq([i \in 1..Len(StoredEntries) |-> i],
            LAMBDA i : filter = None \/ retain(StoredEntries[i], to_lowercase(filter[1])))

\* the flat arguments a posted envelope supplies
FlatArguments(params) ==
  [url |-> or_else(get_string(params, "url"), get_uri(params, "url")),
   filter |-> get_string(params, "filter"),
   offset |-> get_variant(params, "offset", "valueInteger"),
   count |-> get_variant(params, "count", "valueInteger")]

\* the last posted invocation made with flat arguments instead
AsFlatCall ==
  Expand(store, IF last.form = "post" THEN "get" ELSE "instance_get", last.id,
         FlatArguments(last.input), [uuid |-> "u1", now |-> "t1"], NoFault)

\* C6: Expand called with a posted envelope returns the same total, offset
\* and 'contains' page as Expand called with the flat arguments the envelope
\* supplies, in the type-level and in the instance form.
C6_PostedPageAsFlat ==
  (last.op = "expand" /\ last.form \in {"post", "instance_post"} /\ last.res.ok) =>
    /\ AsFlatCall.res.ok
    /\ ExpansionOf(AsFlatCall).total = ExpansionOf(last).total
    /\ ExpansionOf(AsFlatCall).offset = ExpansionOf(last).offset
    /\ ExpansionOf(AsFlatCall).contains = ExpansionOf(last).contains

\* C7: for the offset o >= 0 and the count c >= 0 that perform_expand is given
\* (0 and 100 when absent), on a resolved ValueSet with no Store query
\* failing, Expand returns no error, 'total' is the number of stored entries
\* passing the filter, and 'contains' is the passing entries at positions
\* o .. o+c-1 in stored order, of length min(c, max(0, total - o)).
C7_TotalThenPage ==
  (/\ last.op = "expand"
   /\ last.call /= None
   /\ ExpandedValueSet /= None
   /\ ~StoreFailed(last)
   /\ unwrap_or(ExpandedParams.offset, DefaultOffset) >= 0
   /\ unwrap_or(ExpandedParams.count, DefaultCount) >= 0) =>
    LET o == unwrap_or(ExpandedParams.offset, DefaultOffset)
        c == unwrap_or(ExpandedParams.count, DefaultCount)
        passing == PassingPositions(ExpandedParams.filter)
        total == Len(passing)
    IN /\ last.res.ok
       /\ ExpansionOf(last).total = total
       /\ ExpansionOf(last).offset = o
       /\ Len(ExpansionOf(last).contains) = Min2(c, Max2(0, total - o))
       /\ \A k \in 1..Len(ExpansionOf(last).contains) :
            ExpansionOf(last).contains[k] = StoredEntries[passing[o + k]]

\* 150 stored entries, offset 100, the default count: 50 entries, total 150
C7_Witness ==
  /\ last.op = "expand"
  /\ last.form = "get"
  /\ last.res.ok
  /\ ExpandedParams.offset = Some(100)
  /\ ExpandedParams.count = None
  /\ ExpansionOf(last).total = LargeLen
  /\ Len(ExpansionOf(last).contains) = LargeLen - 100
  /\ ExpansionOf(last).contains[1].system = Some(JsonNumber(101))

\* the document without its generated fields
WithoutGenerated(doc) ==
  [doc EXCEPT !.expansion.identifier = << >>, !.expansion.timestamp = "-"]

\* C8: the same Expand call made again on the unchanged Store, with whatever
\* identifier and timestamp it generates, returns a document equal to the
\* first in every field but expansion.identifier and expansion.timestamp; and
\* for the same ValueSet and filter 'total' is the same for every offset and
\* count.
C8_IdempotentFixedTotal ==
  (last.op = "expand" /\ last.res.ok) =>
    /\ \A gen \in Gens :
         LET again == Expand(store, last.form, last.id, last.input, gen, NoFault)
         IN /\ again.res.ok
            /\ WithoutGenerated(again.res.val) = WithoutGenerated(last.res.val)
    /\ \A o \in Opt(Offsets), c \in Opt(Counts) :
         LET page == perform_expand(store, last.call[1].url,
                                    [ExpandedParams EXCEPT !.offset = o, !.count = c],
                                    [uuid |-> "u2", now |-> "t2"], NoFault)
         IN page.res.ok /\ ExpansionOf(page).total = ExpansionOf(last).total

C8_Witness ==
  /\ last.op = "expand"
  /\ last.form = "instance_get"
  /\ last.res.ok
  /\ ExpandedParams.filter = Some(<<"a">>)
  /\ ExpansionOf(last).total = 2
  /\ ExpansionOf(last).contains = << >>
  /\ ExpansionOf(last).identifier = <<"urn:uuid:", "u2">>

\* the last invocation returned every entry it retained: nothing was skipped
\* and the count did not cut the page
WholePage ==
  /\ last.op = "expand"
  /\ last.res.ok
  /\ ExpandedParams.filter /= None
  /\ ExpansionOf(last).offset = 0
  /\ as_usize(unwrap_or(ExpandedParams.count, DefaultCount)) >= Len(StoredEntries)

Retained(e) ==
  \E k \in 1..Len(ExpansionOf(last).contains) : ExpansionOf(last).contains[k] = e

MatchesFilter(json) ==
  /\ as_str(json) /= None
  /\ str_contains(to_lowercase(as_str(json)[1]), to_lowercase(ExpandedParams.filter[1]))

\* C9 as stated: an entry is retained iff its text display contains the filter
\* text, or it has no display and its text code contains the filter text,
\* both case-insensitively.
C9_DisplayElseCodeWhenAbsent ==
  WholePage =>
    \A i \in 1..Len(StoredEntries) :
      LET e == StoredEntries[i]
      IN Retained(e) <=> \/ MatchesFilter(e.display)
                         \/ e.display = None /\ MatchesFilter(e.code)

\* C9 amended: an entry is retained iff its text display contains the filter
\* text, or it has no text display (none, or one that is not text) and its
\* text code contains the filter text, both case-insensitively; an entry with
\* a text display that does not contain the filter text is dropped even if
\* its code contains it, and an entry with neither field is dropped.
C9_DisplayElseCodeWhenNotText ==
  WholePage =>
    \A i \in 1..Len(StoredEntries) :
      LET e == StoredEntries[i]
      IN /\ Retained(e) <=> \/ MatchesFilter(e.display)
                            \/ as_str(e.display) = None /\ MatchesFilter(e.code)
         /\ (as_str(e.display) /= None /\ ~MatchesFilter(e.display)) => ~Retained(e)
         /\ (e.display = None /\ e.code = None) => ~Retained(e)

C9_Witness ==
  /\ WholePage
  /\ last.form = "post"
  /\ StoredEntries = <<e_other_display, e_number_display, e_bare>>
  /\ ExpansionOf(last).contains = <<e_number_display>>

(***************************************************************************)
(* $validate-code on a ValueSet whose expansion is stored                  *)
(***************************************************************************)
\* the code "a" of http://x/cs as an expansion entry, and one that is no code
\* of it
e_member == entry(Some(JsonString(<<"A", "l">>)), Some(JsonString(<<"a">>)), x_system)

e_stranger == entry(None, Some(JsonString(<<"z">>)), x_system)

\* the expansion rows a Store may hold for the ValueSet vs-1
MembershipRows ==
  {{}} \cup {{ExpansionRow("vs-1", [contains |-> Some(JsonArray(e))])} :
              e \in {<< >>, <<e_member>>, <<e_stranger>>, <<e_stranger, e_member>>}}

\* the Stores of $validate-code, the ValueSet with every expansion row
MembershipStores ==
  {[st EXCEPT !.value_set_expansions = rows] :
     st \in {v \in ValidateStores : v.value_sets /= {}}, rows \in MembershipRows}
  \cup {st \in ValidateStores : st.value_sets = {}}

InitMembership == store \in MembershipStores /\ last = NoCall

NextMembership ==
  \/ ValidateCodeVsGet
  \/ ValidateCodeVsPost
  \/ ValidateCodeVsInstanceGet
  \/ ValidateCodeVsInstancePost
  \/ Deliver

SpecMembership == InitMembership /\ [][NextMembership]_vars

\* the Stores that differ from the current one only in the expansion stored
\* for the ValueSet and, for the type-level forms, in whether the ValueSet
\* is stored
MembershipVariants ==
  {[store EXCEPT !.value_set_expansions = rows, !.value_sets = sets] :
     rows \in MembershipRows,
     sets \in IF IsInstance(last) THEN {store.value_sets} ELSE {{}, {vs1}}}

\* C11: the response of ValueSet-scoped Validate-Code is the same on every
\* Store that differs only in the ValueSet's stored expansion (and, in the
\* type-level forms, in whether the ValueSet exists), and its result is true
\* whenever the code exists in the CodeSystem.
C11_MembershipIndependent ==
  (last.op = "validate-code-vs" /\ ~StoreFailed(last)) =>
    /\ \A st \in MembershipVariants :
         ValidateCode(st, last.op, last.form, last.id, last.input, NoFault).res = last.res
    /\ (last.res.ok /\ CodeExists) => get_boolean(last.res.val, "result") = Some(TRUE)

C11_Witness ==
  /\ last.op = "validate-code-vs"
  /\ last.form = "instance_get"
  /\ last.res.ok
  /\ store.value_set_expansions =
       {ExpansionRow("vs-1", [contains |-> Some(JsonArray(<<e_stranger>>))])}
  /\ last.call[1].code = "a"
  /\ get_boolean(last.res.val, "result") = Some(TRUE)

(***************************************************************************)
(* Claims on the envelope of $validate-code                                *)
(***************************************************************************)
\* the Parameters of the envelope the last invocation returned
ReturnedParameters == last.res.val.parameter[1]

\* the CodeSystem variant validated a code that exists
ValidatedExisting ==
  last.op = "validate-code-cs" /\ last.res.ok /\ last.call /= None /\ CodeExists

\* the envelope ends with the Concept's actual display, and 'result' is true
TrueWithActualDisplay ==
  /\ get_boolean(last.res.val, "result") = Some(TRUE)
  /\ ReturnedParameters[Len(ReturnedParameters)] =
       Parameter_string("display", unwrap_or(ValidatedConcept[1].display, ""))
  /\ \A i \in 1..Len(ReturnedParameters) :
       ReturnedParameters[i].name = "message" => i = Len(ReturnedParameters) - 1

\* C12 as stated: when the code exists, result is true whatever display is
\* supplied, a 'message' is appended exactly when a display was supplied and
\* is not equal to the Concept's stored display, and the Concept's actual
\* display (empty when it has none) is appended after it.
C12_MessageWhenDisplayDiffers ==
  ValidatedExisting =>
    /\ TrueWithActualDisplay
    /\ get_parameter(last.res.val, "message") /= None
         <=> (last.call[1].display /= None
              /\ last.call[1].display /= ValidatedConcept[1].display)

\* C12 amended: the 'message' is appended exactly when a display was
\* supplied, the Concept has a stored display and the two differ; a Concept
\* with no stored display gets no message whatever display is supplied.
C12_MessageWhenStoredDisplayDiffers ==
  ValidatedExisting =>
    /\ TrueWithActualDisplay
    /\ get_parameter(last.res.val, "message") /= None
         <=> (/\ last.call[1].display /= None
              /\ ValidatedConcept[1].display /= None
              /\ last.call[1].display /= ValidatedConcept[1].display)

C12_Witness ==
  /\ ValidatedExisting
  /\ last.form = "post"
  /\ last.call[1].display = Some("Beta")
  /\ ValidatedConcept[1].display = Some("Alpha")
  /\ Len(ReturnedParameters) = 3
  /\ ReturnedParameters[2].name = "message"

(***************************************************************************)
(* $lookup: the Stores, the inputs and the invocations                     *)
(***************************************************************************)
\* the Concept rows a Store may hold for a code: with and without a display,
\* a definition, and properties that are no object or an object
LookupConcept(id, code, v) ==
  [code_system_id |-> id, code |-> code,
   display |-> IF v \in {1, 3} THEN Some("Alpha") ELSE None,
   definition |-> IF v \in {2, 3} THEN Some("The first") ELSE None,
   properties |->
     CASE v = 1 -> None
       [] v = 2 -> Some(JsonNumber(7))
       [] v = 3 -> Some(JsonObject(<<[key |-> "parent", value |-> JsonString(<<"r">>)]>>))
       [] v = 4 -> Some(JsonObject(<<[key |-> "inactive", value |-> JsonNumber(1)],
                                     [key |-> "parent", value |-> JsonString(<<"r">>)]>>))]

ConceptVariants == 1..4

\* no CodeSystem; one CodeSystem with code "a" in every variant, without and
\* with code "b"; two versions of one url, the code in either or both
LookupStores ==
  {EmptyStore, [EmptyStore EXCEPT !.code_systems = {cs1}]}
  \cup {[EmptyStore EXCEPT !.code_systems = {cs1},
                           !.concepts = {LookupConcept("cs-1", "a", va)}
                             \cup (IF vb = 0 THEN {} ELSE {LookupConcept("cs-1", "b", vb)})] :
          va \in ConceptVariants, vb \in {0} \cup ConceptVariants}
  \cup {[EmptyStore EXCEPT !.code_systems = {cs1, cs2},
                           !.concepts = {LookupConcept(id, "a", 1) : id \in ids}
                             \cup {LookupConcept("cs-2", "b", 4)}] :
          ids \in SUBSET CodeSystemIds}

LookupQueries == [system : Opt(Urls), code : Opt(Codes), version : Opt(Versions)]

LookupBodies ==
  {Envelope(<<s, c, v>>) :
     s \in OptParam("system", {"valueString", "valueUri"}, {"http://x/cs"}),
     c \in OptParam("code", {"valueString", "valueCode"}, Codes),
     v \in OptParam("version", {"valueString"}, Versions)}

LookupGet ==
  /\ last = NoCall
  /\ \E params \in LookupQueries, f \in FaultsUpTo(2) :
       /\ last' = Invocation("lookup", "get", None, params, lookup_get(store, params, f))
       /\ UNCHANGED store

LookupPost ==
  /\ last = NoCall
  /\ \E params \in LookupBodies, f \in FaultsUpTo(2) :
       /\ last' = Invocation("lookup", "post", None, params, lookup_post(store, params, f))
       /\ UNCHANGED store

LookupInstanceGet ==
  /\ last = NoCall
  /\ \E id \in CodeSystemIds, params \in LookupQueries, f \in FaultsUpTo(3) :
       /\ params.system = None /\ params.version = None
       /\ last' = Invocation("lookup", "instance_get", Some(id), params,
                             lookup_instance_get(store, id, params, f))
       /\ UNCHANGED store

LookupInstancePost ==
  /\ last = NoCall
  /\ \E id \in CodeSystemIds, params \in LookupBodies, f \in FaultsUpTo(3) :
       /\ get_parameter(params, "system") = None /\ get_parameter(params, "version") = None
       /\ last' = Invocation("lookup", "instance_post", Some(id), params,
                             lookup_instance_post(store, id, params, f))
       /\ UNCHANGED store

InitLookup == store \in LookupStores /\ last = NoCall

NextLookup ==
  \/ LookupGet
  \/ LookupPost
  \/ LookupInstanceGet
  \/ LookupInstancePost
  \/ Deliver

SpecLookup == InitLookup /\ [][NextLookup]_vars

(***************************************************************************)
(* Claims on $lookup                                                       *)
(***************************************************************************)
\* C20: when the CodeSystem and the Concept that Lookup resolves exist and
\* no Store query fails, Lookup returns an envelope whose 'display' Parameter
\* is the Concept's stored display, or the empty string when it has none.
C20_DisplayOrEmpty ==
  (last.op = "lookup" /\ last.call /= None /\ ~StoreFailed(last) /\ CodeExists) =>
    /\ last.res.ok
    /\ get_string(last.res.val, "display") = Some(unwrap_or(ValidatedConcept[1].display, ""))

C20_Witness ==
  /\ last.op = "lookup"
  /\ last.form = "instance_post"
  /\ last.res.ok
  /\ ValidatedConcept[1].display = None
  /\ get_string(last.res.val, "display") = Some("")
  /\ Len(ReturnedParameters) = 4

(***************************************************************************)
(* Every operation in every call form, on an empty Store and on Stores     *)
(* that hold a row in each table                                           *)
(***************************************************************************)
FullStore ==
  [code_systems |-> {cs1},
   concepts |-> {LookupConcept("cs-1", "a", 3), LookupConcept("cs-1", "b", 4)},
   closure_table |-> ClosureRows("cs-1", {<<"a", "b">>}),
   value_sets |-> {vs1},
   value_set_expansions |->
     {ExpansionRow("vs-1", [contains |-> Some(JsonArray(<<e_display, e_code_only>>))])},
   concept_maps |-> {cm("cm-1", "1.0", 1, [group |-> Some(<<g_forward, g_back>>)])}]

OperationStores ==
  {EmptyStore, FullStore, [FullStore EXCEPT !.code_systems = {cs1, cs2}]}

InitOperations == store \in OperationStores /\ last = NoCall

NextOperations ==
  \/ LookupGet
  \/ LookupPost
  \/ LookupInstanceGet
  \/ LookupInstancePost
  \/ ValidateCodeCsGet
  \/ ValidateCodeCsPost
  \/ ValidateCodeCsInstanceGet
  \/ ValidateCodeCsInstancePost
  \/ SubsumesGet
  \/ SubsumesPost
  \/ SubsumesInstanceGet
  \/ SubsumesInstancePost
  \/ ExpandGet
  \/ ExpandPost
  \/ ExpandInstanceGet
  \/ ExpandInstancePost
  \/ ValidateCodeVsGet
  \/ ValidateCodeVsPost
  \/ ValidateCodeVsInstanceGet
  \/ ValidateCodeVsInstancePost
  \/ TranslateGet
  \/ TranslatePost
  \/ TranslateInstanceGet
  \/ TranslateInstancePost
  \/ Deliver

SpecOperations == InitOperations /\ [][NextOperations]_vars

(***************************************************************************)
(* Claims on the arguments of the operations                               *)
(***************************************************************************)
IsPosted(inv) == inv.form \in {"post", "instance_post"}

\* the arguments an operation requires in a call form, each as the set of
\* names of which one suffices
RequiredArguments(op, form) ==
  LET type_level == form \in {"get", "post"}
  IN CASE op = "lookup" -> (IF type_level THEN {{"system"}} ELSE {}) \cup {{"code"}}
       [] op = "validate-code-cs" ->
            (IF type_level THEN {{"system", "url"}} ELSE {}) \cup {{"code"}}
       [] op = "validate-code-vs" ->
            (IF type_level THEN {{"url"}} ELSE {}) \cup {{"code"}, {"system"}}
       [] op = "subsumes" ->
            (IF type_level THEN {{"system"}} ELSE {}) \cup {{"codeA"}, {"codeB"}}
       [] op = "translate" -> {{"code"}, {"system"}}
       [] op = "expand" -> IF type_level THEN {{"url"}} ELSE {}
       [] OTHER -> {}

\* the other kind a named argument of a posted envelope may be supplied in
AlternateKind(name) == IF name \in {"system", "url"} THEN "valueUri" ELSE "valueCode"

\* the posted envelope supplies the argument as a string or in its other kind
SuppliedEitherKind(name) ==
  or_else(get_string(last.input, name),
          get_variant(last.input, name, AlternateKind(name))) /= None

\* C13: a posted envelope that supplies every argument the operation
\* requires, each as a string-kind or as its uri-kind or code-kind value, is
\* not rejected for a missing argument.
C13_EitherKindAccepted ==
  (/\ IsPosted(last)
   /\ \A names \in RequiredArguments(last.op, last.form) :
        \E name \in names : SuppliedEitherKind(name)) =>
    ~IsBadRequest(last)

\* the flat argument of a name
FlatArgument(name) ==
  CASE name = "system" -> last.input.system
    [] name = "url" -> last.input.url
    [] name = "code" -> last.input.code
    [] name = "codeA" -> last.input.code_a
    [] name = "codeB" -> last.input.code_b

\* the caller supplied nothing under the name
Absent(name) ==
  IF IsPosted(last) THEN get_parameter(last.input, name) = None
  ELSE FlatArgument(name) = None

\* the fields a BadRequest message names
NamedFields(msg) ==
  CASE msg = <<"system parameter required">> -> {"system"}
    [] msg = <<"system parameter required for ValueSet validation">> -> {"system"}
    [] msg = <<"system or url parameter required">> -> {"system", "url"}
    [] msg = <<"url parameter required">> -> {"url"}
    [] msg = <<"url parameter required for ValueSet">> -> {"url"}
    [] msg = <<"code parameter required">> -> {"code"}
    [] msg = <<"codeA parameter required">> -> {"codeA"}
    [] msg = <<"codeB parameter required">> -> {"codeB"}
    [] OTHER -> {}

\* C14: in every operation and call form, when a required argument is absent
\* the call fails with BadRequest, no Store query having been issued, and
\* the message names fields that are absent.
C14_BadRequestNamesMissing ==
  (/\ last /= NoCall
   /\ \E names \in RequiredArguments(last.op, last.form) :
        \A name \in names : Absent(name)) =>
    /\ IsBadRequest(last)
    /\ last.queries = << >>
    /\ last.call = None
    /\ NamedFields(last.res.err.msg) /= {}
    /\ \A name \in NamedFields(last.res.err.msg) : Absent(name)

(***************************************************************************)
(* The accessors of a posted envelope: the envelopes and the calls         *)
(***************************************************************************)
MaxParams == 3

Names == {"system", "code"}

\* the values a Parameter may hold: none, or one of a kind
Variants == 0..6

ParameterAt(name, variant) ==
  CASE variant = 0 -> [name |-> name, value |-> None, part |-> None]
    [] variant = 1 -> Parameter_string(name, "a")
    [] variant = 2 -> Parameter_string(name, "b")
    [] variant = 3 -> Parameter_code(name, "a")
    [] variant = 4 -> Parameter_of(name, "valueUri", "a")
    [] variant = 5 -> Parameter_boolean(name, TRUE)
    [] variant = 6 -> Parameter_boolean(name, FALSE)

\* the shapes of an envelope: the name and the value of each Parameter
Shapes ==
  UNION {[1..n -> Names \X Variants] : n \in 0..MaxParams}

EnvelopeOf(shape) ==
  with_parameters([i \in 1..Len(shape) |-> ParameterAt(shape[i][1], shape[i][2])])

\* Parameters::new
Parameters_new == [resource_type |-> "Parameters", parameter |-> None]

Access(accessor, kind, self, name, res) ==
  [op |-> accessor, kind |-> kind, self |-> self, name |-> name, res |-> res]

GetOn(self) ==
  \E name \in Names \cup {"version"} :
    \/ last' = Access("get_string", "valueString", self, name, get_string(self, name))
    \/ last' = Access("get_boolean", "valueBoolean", self, name, get_boolean(self, name))
    \/ last' = Access("get_code", "valueCode", self, name, get_code(self, name))
    \/ last' = Access("get_uri", "valueUri", self, name, get_uri(self, name))

GetOnEnvelope ==
  /\ last = NoCall
  /\ \E shape \in Shapes : GetOn(EnvelopeOf(shape))
  /\ UNCHANGED store

GetOnNew ==
  /\ last = NoCall
  /\ GetOn(Parameters_new)
  /\ UNCHANGED store

InitParameters == store = EmptyStore /\ last = NoCall

NextParameters == GetOnEnvelope \/ GetOnNew \/ Deliver

SpecParameters == InitParameters /\ [][NextParameters]_vars

(***************************************************************************)
(* Claims on the accessors                                                 *)
(***************************************************************************)
Accessed == last /= NoCall

AccessedParameters == IF last.self.parameter = None THEN << >> ELSE last.self.parameter[1]

\* the positions of the Parameters that have the name asked for
Named == {i \in 1..Len(AccessedParameters) : AccessedParameters[i].name = last.name}

IsFirstNamed(i) == i \in Named /\ \A j \in Named : i <= j

HoldsKind(i) ==
  /\ AccessedParameters[i].value /= None
  /\ AccessedParameters[i].value[1].kind = last.kind

\* C15: an accessor inspects only the first Parameter of the name: it
\* returns the value of that Parameter when it is of the requested kind, and
\* absent when no Parameter has the name, or the first one has no value or
\* holds another kind, whatever the later Parameters of the name hold.
C15_FirstNamedOnly ==
  Accessed =>
    /\ Named = {} => last.res = None
    /\ \A i \in Named :
         IsFirstNamed(i) =>
           IF HoldsKind(i) THEN last.res = Some(AccessedParameters[i].value[1].v)
           ELSE last.res = None

\* the first Parameter of the name has no value or another kind, a later one
\* of the name holds the requested kind, and the accessor returned absent
C15_Witness ==
  /\ Accessed
  /\ \E i, j \in Named :
       /\ IsFirstNamed(i)
       /\ ~HoldsKind(i)
       /\ i < j
       /\ HoldsKind(j)
  /\ last.res = None

(***************************************************************************)
(* Claims on $translate                                                    *)
(***************************************************************************)
\* the last invocation is a translation that returned an envelope
Translated == last.op = "translate" /\ last.res.ok

\* the 'match' Parameters of the returned envelope, in the order returned
ReturnedMatches == SelectSeq(ReturnedParameters, LAMBDA p : p.name = "match")

MatchEquivalence(m) == m.part[1][1].value[1].v

MatchCoding(m) == m.part[1][2].value[1].v

\* the translation resolved a ConceptMap
TranslatedWithMap == Translated /\ last.call[1].concept_map_url /= None

\* the groups of the document of the ConceptMap the translation resolved
TranslatedGroups ==
  LET content == get_concept_map(store, last.call[1].concept_map_url[1], None)[1].content
  IN IF content.group = None THEN << >> ELSE content.group[1]

\* the side of a group compared with the supplied source system
ComparedSide(g) == IF last.call[1].reverse THEN g.target ELSE g.source

\* the side of a group reported as the system of the Codings and compared
\* with the target-system filter
ReportedSide(g) == unwrap_or(IF last.call[1].reverse THEN g.source ELSE g.target, "")

GroupSelected(g) ==
  /\ ComparedSide(g) = Some(last.call[1].source_system)
  /\ last.call[1].target_system /= None =>
       ReportedSide(g) = last.call[1].target_system[1]

\* the positions of the targets of an element that yield a 'match': the
\* element has the source code and the target has a code
MatchingTargets(e) ==
  IF e.code /= Some(last.call[1].source_code) \/ e.target = None THEN {}
  ELSE {t \in 1..Len(e.target[1]) : e.target[1][t].code /= None}

\* the codes of the targets of a group that yield a 'match'
TargetCodes(g) ==
  IF g.element = None THEN {}
  ELSE UNION {{g.element[1][e].target[1][t].code[1] : t \in MatchingTargets(g.element[1][e])} :
                e \in 1..Len(g.element[1])}

\* C16: with reverse a group (source S, target T) matches when T is the
\* supplied source system, S is the system of every Coding and S is what the
\* target filter is compared with; without reverse S and T change roles.
C16_ReverseExchangesRoles ==
  TranslatedWithMap =>
    LET groups == {TranslatedGroups[i] : i \in 1..Len(TranslatedGroups)}
    IN /\ \A k \in 1..Len(ReturnedMatches) :
            \E g \in groups :
              /\ GroupSelected(g)
              /\ MatchCoding(ReturnedMatches[k]).system = Some(ReportedSide(g))
              /\ MatchCoding(ReturnedMatches[k]).code[1] \in TargetCodes(g)
       /\ \A g \in groups :
            GroupSelected(g) =>
              \A c \in TargetCodes(g) :
                \E k \in 1..Len(ReturnedMatches) :
                  /\ MatchCoding(ReturnedMatches[k]).system = Some(ReportedSide(g))
                  /\ MatchCoding(ReturnedMatches[k]).code = Some(c)

\* a reverse translation with a target filter returned a match
C16_Witness ==
  /\ TranslatedWithMap
  /\ last.call[1].reverse
  /\ last.call[1].target_system /= None
  /\ ReturnedMatches /= << >>
  /\ MatchCoding(ReturnedMatches[1]).system = Some("http://x/cs")

\* the 'result' of the returned envelope
ReturnedResult == get_boolean(last.res.val, "result")

\* C17: the 'result' of a Translate envelope is true exactly when the
\* envelope holds a 'match', and the envelope holds a 'message' exactly when
\* it holds no 'match'.
C17_ResultIffMatch ==
  Translated =>
    /\ ReturnedResult = Some(ReturnedMatches /= << >>)
    /\ get_parameter(last.res.val, "message") /= None <=> ReturnedMatches = << >>

\* an envelope with a 'match', a true 'result' and no 'message'
C17_Witness ==
  /\ Translated
  /\ ReturnedMatches /= << >>
  /\ ReturnedResult = Some(TRUE)
  /\ get_parameter(last.res.val, "message") = None

\* a type-level translation whose other arguments were accepted was given no
\* ConceptMap URL
NoMapIdentifier ==
  /\ last.op = "translate"
  /\ last.form \in {"get", "post"}
  /\ ~IsBadRequest(last)
  /\ IF last.form = "get" THEN last.input.url = None
     ELSE get_parameter(last.input, "url") = None

\* C18: Translate without a ConceptMap identifier returns an envelope with
\* result false and a message, holds no 'match' and issues no Store query,
\* whatever the source system, code, target and reverse flag.
C18_NoMapNoSearch ==
  NoMapIdentifier =>
    /\ last.res.ok
    /\ ReturnedResult = Some(FALSE)
    /\ get_string(last.res.val, "message") /= None
    /\ ReturnedMatches = << >>
    /\ last.queries = << >>

\* the Store holds a ConceptMap with a group for the supplied system, and
\* the translation without identifier returned result false
C18_Witness ==
  /\ NoMapIdentifier
  /\ \E m \in store.concept_maps :
       /\ m.content.group /= None
       /\ \E i \in 1..Len(m.content.group[1]) :
            ComparedSide(m.content.group[1][i]) = Some(last.call[1].source_system)
  /\ last.res.ok
  /\ ReturnedResult = Some(FALSE)

\* the targets that yield a 'match', each as its position (group, element,
\* target) in the document
Yielding ==
  UNION {UNION {{<<g, e, t>> : t \in MatchingTargets(TranslatedGroups[g].element[1][e])} :
                  e \in IF TranslatedGroups[g].element = None THEN {}
                        ELSE 1..Len(TranslatedGroups[g].element[1])} :
           g \in {g \in 1..Len(TranslatedGroups) : GroupSelected(TranslatedGroups[g])}}

\* document order of two positions
Before(x, y) ==
  \/ x[1] < y[1]
  \/ x[1] = y[1] /\ x[2] < y[2]
  \/ x[1] = y[1] /\ x[2] = y[2] /\ x[3] < y[3]

\* the place in document order of a position among the yielding ones
Place(x) == Cardinality({y \in Yielding : Before(y, x)}) + 1

\* C19: the 'match' Parameters are in document order (group, element,
\* target), one for each target of a matching element that has a code and
\* passes the filter, equal ones included.
C19_DocumentOrder ==
  TranslatedWithMap =>
    /\ Len(ReturnedMatches) = Cardinality(Yielding)
    /\ \A x \in Yielding :
         LET m == ReturnedMatches[Place(x)]
             group == TranslatedGroups[x[1]]
             target == group.element[1][x[2]].target[1][x[3]]
         IN /\ MatchCoding(m).system = Some(ReportedSide(group))
            /\ MatchCoding(m).code = target.code
            /\ MatchCoding(m).display = target.display
            /\ MatchEquivalence(m) = unwrap_or(target.equivalence, "equivalent")

\* the envelope holds the same 'match' twice, with another one between them
C19_Witness ==
  /\ TranslatedWithMap
  /\ \E i, j, k \in 1..Len(ReturnedMatches) :
       /\ i < j
       /\ j < k
       /\ ReturnedMatches[i] = ReturnedMatches[k]
       /\ MatchCoding(ReturnedMatches[i]).code /= MatchCoding(ReturnedMatches[j]).code

(***************************************************************************)
(* $lookup and $subsumes on one family of Stores                           *)
(***************************************************************************)
\* no CodeSystem; one CodeSystem with any of the codes and any closure rows;
\* two versions of one url, each with any of the codes
CodeStores ==
  {EmptyStore}
  \cup {[EmptyStore EXCEPT !.code_systems = {cs1},
                           !.concepts = {LookupConcept("cs-1", c, 1) : c \in cs},
                           !.closure_table = ClosureRows("cs-1", rel)] :
          cs \in SUBSET Codes, rel \in SUBSET {<<"a", "b">>, <<"b", "a">>}}
  \cup {[EmptyStore EXCEPT !.code_systems = {cs1, cs2},
                           !.concepts = {LookupConcept("cs-1", c, 1) : c \in cs_1}
                                          \cup {LookupConcept("cs-2", c, 3) : c \in cs_2},
                           !.closure_table = ClosureRows("cs-1", {<<"a", "b">>})
                                               \cup ClosureRows("cs-2", {<<"b", "a">>})] :
          cs_1 \in SUBSET Codes, cs_2 \in SUBSET Codes}

InitCodes == store \in CodeStores /\ last = NoCall

NextCodes ==
  \/ LookupGet
  \/ LookupPost
  \/ LookupInstanceGet
  \/ LookupInstancePost
  \/ SubsumesGet
  \/ SubsumesPost
  \/ SubsumesInstanceGet
  \/ SubsumesInstancePost
  \/ Deliver

SpecCodes == InitCodes /\ [][NextCodes]_vars

(***************************************************************************)
(* Claims on the errors of $lookup and $subsumes                           *)
(***************************************************************************)
\* a $lookup or $subsumes invocation whose arguments were accepted and whose
\* Store queries did not fail
Answered ==
  /\ last.op \in {"lookup", "subsumes"}
  /\ ~IsBadRequest(last)
  /\ ~StoreFailed(last)

\* the path-bound identifier names no CodeSystem
MissingId == IsInstance(last) /\ get_code_system_by_id(store, last.id[1]) = None

\* the CodeSystem the invocation asks for does not exist
SystemMissing == MissingId \/ ResolvedCodeSystem = None

\* the codes the invocation asks about
QueriedCodes ==
  IF last.op = "lookup" THEN <<last.call[1].code>>
  ELSE <<last.call[1].code_a, last.call[1].code_b>>

\* the queried codes the resolved CodeSystem does not hold
MissingCodes ==
  {i \in 1..Len(QueriedCodes) :
     get_concept(store, ResolvedCodeSystem[1].id, QueriedCodes[i]) = None}

\* C21: Lookup and Subsumes return a NotFound error and no envelope when the
\* CodeSystem is missing or a queried code is missing in it; a missing
\* CodeSystem is the one reported, whatever the codes.
C21_HardNotFound ==
  Answered =>
    IF SystemMissing
    THEN IsNotFound(last) /\ last.res.err.msg[1] \in {"CodeSystem '", "CodeSystem "}
    ELSE MissingCodes /= {} => IsNotFound(last) /\ last.res.err.msg[1] = "Code '"

\* $subsumes on a CodeSystem that holds codeA and not codeB
C21_Witness ==
  /\ Answered
  /\ last.op = "subsumes"
  /\ ~SystemMissing
  /\ MissingCodes = {2}
  /\ IsNotFound(last)

(***************************************************************************)
(* Claims on the Store across invocations                                  *)
(***************************************************************************)
\* C22: no invocation of any operation in any call form changes the Store:
\* every CodeSystem, ValueSet, ConceptMap, Concept, closure row and stored
\* expansion is the same after every step.
C22_StoreUnchanged == [][store' = store]_vars

\* an expansion was answered from the stored rows, which are all still there
C22_Witness ==
  /\ last.op = "expand"
  /\ last.res.ok
  /\ Len(last.queries) >= 2
  /\ store = FullStore

(***************************************************************************)
(* Invocations in flight together.  A handler is an async fn: it runs to   *)
(* its next Store query (an await), and the runtime may run any other      *)
(* invocation in between.  Under SpecConcurrent 'last' holds, for each     *)
(* slot of the runtime, the invocation in flight there: its arguments, the *)
(* await it is at, and the locals of perform_lookup or perform_subsumes.   *)
(***************************************************************************)
MaxFlights == 2

Slots == 1..MaxFlights

IdleFlight ==
  [pc |-> "idle", op |-> "none", system |-> "", code_a |-> "", code_b |-> "",
   version |-> None, code_system |-> None, concept_a |-> None, concept_b |-> None,
   res |-> Ok(None)]

Done(flight, res) == [flight EXCEPT !.pc = "done", !.res = res]

\* two versions of one url that differ in their codes; one CodeSystem; none
ConcurrentStores ==
  {EmptyStore,
   [EmptyStore EXCEPT !.code_systems = {cs1},
                      !.concepts = {LookupConcept("cs-1", c, 1) : c \in Codes},
                      !.closure_table = ClosureRows("cs-1", {<<"b", "a">>})],
   [EmptyStore EXCEPT !.code_systems = {cs1, cs2},
                      !.concepts = {LookupConcept("cs-1", c, 1) : c \in Codes}
                                     \cup {LookupConcept("cs-2", "a", 3)},
                      !.closure_table = ClosureRows("cs-1", {<<"a", "b">>})]}

\* a request arrives and its handler is called with the arguments resolved
Start ==
  \E i \in Slots, op \in {"lookup", "subsumes"}, version \in Opt(Versions),
     code_a \in Codes, code_b \in Codes :
    /\ last[i].pc = "idle"
    /\ op = "lookup" => code_b = code_a
    /\ last' = [last EXCEPT ![i] =
                  [IdleFlight EXCEPT !.pc = "get_code_system", !.op = op,
                                     !.system = "http://x/cs", !.code_a = code_a,
                                     !.code_b = code_b, !.version = version]]
    /\ UNCHANGED store

\* store.get_code_system(system, version).await
AwaitCodeSystem(i) ==
  LET flight == last[i]
      code_system == get_code_system(store, flight.system, flight.version)
  IN /\ flight.pc = "get_code_system"
     /\ last' = [last EXCEPT ![i] =
                   IF code_system = None
                   THEN Done(flight, Err(NotFound(<<"CodeSystem '", flight.system,
                                                   "' not found">>)))
                   ELSE [flight EXCEPT !.code_system = code_system,
                                       !.pc = "get_concept_a"]]
     /\ UNCHANGED store

\* the envelope perform_lookup builds from its locals
lookup_envelope(code_system, concept) ==
  LET props_obj == IF concept.properties = None THEN None
                   ELSE as_object(concept.properties[1])
  IN with_parameters(
       <<Parameter_string("name", unwrap_or(code_system.name, "")),
         Parameter_string("display", unwrap_or(concept.display, ""))>>
       \o (IF concept.definition /= None
           THEN <<Parameter_part("designation",
                    <<Parameter_code("use", "definition"),
                      Parameter_string("value", concept.definition[1])>>)>>
           ELSE << >>)
       \o (IF props_obj /= None
           THEN [k \in 1..Len(props_obj[1]) |->
                   Parameter_part("property",
                     <<Parameter_code("code", props_obj[1][k].key),
                       Parameter_string("value", json_to_string(props_obj[1][k].value))>>)]
           ELSE << >>))

CodeNotFound(code, system) ==
  Err(NotFound(<<"Code '", code, "' not found in system '", system, "'">>))

\* an invocation that reads the CodeSystem of the first slot, as if the
\* handlers kept the resolved CodeSystem in one place
AwaitConceptA_shared(i) ==
  LET flight == last[i]
      code_system == IF last[1].code_system /= None THEN last[1].code_system
                     ELSE flight.code_system
      concept == get_concept(store, code_system[1].id, flight.code_a)
  IN /\ flight.pc = "get_concept_a"
     /\ last' = [last EXCEPT ![i] =
                   IF flight.op = "subsumes"
                   THEN [flight EXCEPT !.concept_a = concept, !.pc = "get_concept_b"]
                   ELSE IF concept = None
                   THEN Done(flight, CodeNotFound(flight.code_a, flight.system))
                   ELSE Done(flight, Ok(lookup_envelope(code_system[1], concept[1])))]
     /\ UNCHANGED store

\* store.get_concept(&code_system.id, code).await of perform_lookup, and
\* store.get_concept(&code_system.id, code_a).await of perform_subsumes
AwaitConceptA(i) ==
  LET flight == last[i]
      concept == get_concept(store, flight.code_system[1].id, flight.code_a)
  IN /\ flight.pc = "get_concept_a"
     /\ last' = [last EXCEPT ![i] =
                   IF flight.op = "subsumes"
                   THEN [flight EXCEPT !.concept_a = concept, !.pc = "get_concept_b"]
                   ELSE IF concept = None
                   THEN Done(flight, CodeNotFound(flight.code_a, flight.system))
                   ELSE Done(flight, Ok(lookup_envelope(flight.code_system[1],
                                                        concept[1])))]
     /\ UNCHANGED store

\* store.get_concept(&code_system.id, code_b).await, and the checks up to the
\* next await
AwaitConceptB(i) ==
  LET flight == last[i]
      concept_b == get_concept(store, flight.code_system[1].id, flight.code_b)
  IN /\ flight.pc = "get_concept_b"
     /\ last' = [last EXCEPT ![i] =
                   IF flight.concept_a = None
                   THEN Done(flight, CodeNotFound(flight.code_a, flight.system))
                   ELSE IF concept_b = None
                   THEN Done(flight, CodeNotFound(flight.code_b, flight.system))
                   ELSE IF flight.code_a = flight.code_b
                   THEN Done(flight, Outcome("equivalent"))
                   ELSE [flight EXCEPT !.concept_b = concept_b,
                                       !.pc = "check_subsumption"]]
     /\ UNCHANGED store

\* store.check_subsumption(&code_system.id, code_a, code_b).await
AwaitSubsumption(i) ==
  LET flight == last[i]
      outcome == check_subsumption(store, flight.code_system[1].id, flight.code_a,
                                   flight.code_b, NoFault)
  IN /\ flight.pc = "check_subsumption"
     /\ last' = [last EXCEPT ![i] =
                   Done(flight,
                        IF outcome.res.val = Some(TRUE) THEN Outcome("subsumes")
                        ELSE IF outcome.res.val = Some(FALSE) THEN Outcome("subsumed-by")
                        ELSE Outcome("not-subsumed"))]
     /\ UNCHANGED store

\* the response is sent and the slot is free
Return(i) ==
  /\ last[i].pc = "done"
  /\ last' = [last EXCEPT ![i] = IdleFlight]
  /\ UNCHANGED store

InitConcurrent == store \in ConcurrentStores /\ last = [i \in Slots |-> IdleFlight]

NextConcurrent ==
  \/ Start
  \/ \E i \in Slots : AwaitCodeSystem(i)
  \/ \E i \in Slots : AwaitConceptA(i)
  \/ \E i \in Slots : AwaitConceptB(i)
  \/ \E i \in Slots : AwaitSubsumption(i)
  \/ \E i \in Slots : Return(i)

SpecConcurrent == InitConcurrent /\ [][NextConcurrent]_vars

\* the result of the invocation run alone on the Store
Alone(flight) ==
  IF flight.op = "lookup"
  THEN perform_lookup(store, flight.system, flight.code_a, flight.version, NoFault).res
  ELSE perform_subsumes(store, flight.system, flight.code_a, flight.code_b,
                        flight.version, NoFault).res

\* C23: whatever other invocations are in flight and however their Store
\* queries interleave, an invocation that has finished holds the result it
\* returns when it runs alone on the same Store.
C23_SameResultAsAlone ==
  \A i \in Slots : last[i].pc = "done" => last[i].res = Alone(last[i])

\* an invocation finished while another one, which resolved another
\* CodeSystem, was between two of its Store queries
C23_Witness ==
  \E i, j \in Slots :
    /\ last[i].pc = "done"
    /\ last[i].res.ok
    /\ last[j].pc \in {"get_concept_a", "get_concept_b", "check_subsumption"}
    /\ last[i].code_system /= last[j].code_system

(***************************************************************************)
(* Claims on the decision of $subsumes                                     *)
(***************************************************************************)
\* a $subsumes invocation that resolved its CodeSystem, no Store query failing
Compared ==
  /\ last.op = "subsumes"
  /\ last.call /= None
  /\ ~StoreFailed(last)
  /\ ResolvedCodeSystem /= None

\* the resolved CodeSystem holds the code
Holds(code) == get_concept(store, ResolvedCodeSystem[1].id, code) /= None

\* the closure table holds (ancestor, descendant) for the resolved CodeSystem
Ancestor(ancestor, descendant) ==
  closure_row(store, ResolvedCodeSystem[1].id, ancestor, descendant)

Outcomes == {"equivalent", "subsumes", "subsumed-by", "not-subsumed"}

\* C24: for two distinct existing codes a and b the outcome is 'subsumes' if
\* (a ancestor-of b) is stored, else 'subsumed-by' if (b ancestor-of a) is,
\* else 'not-subsumed'; every envelope Subsumes returns is the single
\* Parameter 'outcome' of code kind with one of the four values.
C24_FixedOrder ==
  /\ (last.op = "subsumes" /\ last.res.ok) =>
       /\ Len(ReturnedParameters) = 1
       /\ ReturnedParameters[1].name = "outcome"
       /\ ReturnedParameters[1].part = None
       /\ ReturnedParameters[1].value /= None
       /\ ReturnedParameters[1].value[1].kind = "valueCode"
       /\ ReturnedParameters[1].value[1].v \in Outcomes
  /\ (/\ Compared
      /\ last.call[1].code_a /= last.call[1].code_b
      /\ Holds(last.call[1].code_a)
      /\ Holds(last.call[1].code_b)) =>
       OutcomeOf(last.res) =
         Some(IF Ancestor(last.call[1].code_a, last.call[1].code_b) THEN "subsumes"
              ELSE IF Ancestor(last.call[1].code_b, last.call[1].code_a) THEN "subsumed-by"
              ELSE "not-subsumed")

\* both rows are stored and the outcome is 'subsumes'
C24_Witness ==
  /\ Compared
  /\ last.call[1].code_a /= last.call[1].code_b
  /\ Ancestor(last.call[1].code_a, last.call[1].code_b)
  /\ Ancestor(last.call[1].code_b, last.call[1].code_a)
  /\ OutcomeOf(last.res) = Some("subsumes")

NamesCode(code) ==
  /\ IsNotFound(last)
  /\ last.res.err.msg =
       <<"Code '", code, "' not found in system '", last.call[1].system, "'">>

\* C25: the NotFound error names codeA when the CodeSystem does not hold
\* codeA, whether or not it holds codeB and also when the two are the same
\* code; it names codeB when the CodeSystem holds codeA and not codeB.
C25_CodeAFirst ==
  Compared =>
    /\ ~Holds(last.call[1].code_a) => NamesCode(last.call[1].code_a)
    /\ (Holds(last.call[1].code_a) /\ ~Holds(last.call[1].code_b)) =>
         NamesCode(last.call[1].code_b)

\* neither code is held, the codes differ, and the error names codeA
C25_Witness ==
  /\ Compared
  /\ last.call[1].code_a /= last.call[1].code_b
  /\ ~Holds(last.call[1].code_a)
  /\ ~Holds(last.call[1].code_b)
  /\ NamesCode(last.call[1].code_a)

(***************************************************************************)
(* Claims on a failing Store query                                         *)
(***************************************************************************)
Translate(st, form, id, input, f) ==
  CASE form = "get" -> translate_get(st, input, f)
    [] form = "post" -> translate_post(st, input, f)
    [] form = "instance_get" -> translate_instance_get(st, id[1], input, f)
    [] form = "instance_post" -> translate_instance_post(st, id[1], input, f)

\* the last invocation again, on the Store st, with the generated values gen
\* and under the fault f
RerunOn(st, gen, f) ==
  CASE last.op = "lookup" -> Lookup(st, last.form, last.id, last.input, f)
    [] last.op = "subsumes" -> Subsumes(st, last.form, last.id, last.input, f)
    [] last.op = "translate" -> Translate(st, last.form, last.id, last.input, f)
    [] last.op = "expand" -> Expand(st, last.form, last.id, last.input, gen, f)
    [] OTHER -> ValidateCode(st, last.op, last.form, last.id, last.input, f)

\* the last invocation again, on the same Store, under the fault f
Rerun(f) == RerunOn(store, CHOOSE gen \in Gens : TRUE, f)

\* C26: when the k-th Store query of an invocation fails, the invocation
\* returns that failure, having issued the k queries it issues up to there
\* when none fails and no query after: no query is retried and no failure
\* becomes an envelope.
C26_FailureSurfacedOnce ==
  last /= NoCall =>
    LET clean == Rerun(NoFault)
    IN /\ \A k \in 1..Len(clean.queries), raw \in RawErrors :
            LET failed == Rerun([at |-> k, raw |-> raw])
            IN /\ failed.res = Err(Database(raw))
               /\ failed.queries = SubSeq(clean.queries, 1, k)
       /\ StoreFailed(last) =>
            /\ Len(last.queries) <= Len(clean.queries)
            /\ last.queries = SubSeq(clean.queries, 1, Len(last.queries))

\* an invocation failed at a query after its first, which it issues more
\* queries after when none fails
C26_Witness ==
  /\ StoreFailed(last)
  /\ Len(last.queries) >= 2
  /\ Len(Rerun(NoFault).queries) > Len(last.queries)

(***************************************************************************)
(* Claims on the Parameters of the returned envelopes                      *)
(***************************************************************************)
\* exactly one of the slots of a Parameter is populated, and so for each of
\* its sub-Parameters
RECURSIVE OneSlot(_)
OneSlot(p) ==
  /\ (p.value /= None) /= (p.part /= None)
  /\ p.part /= None => \A k \in 1..Len(p.part[1]) : OneSlot(p.part[1][k])

EnvelopeOps == {"lookup", "validate-code-cs", "validate-code-vs", "subsumes", "translate"}

\* C27: every Parameter of every envelope lookup, validate-code, subsumes and
\* translate return, sub-Parameters included, has a value and no
\* sub-Parameters, or sub-Parameters and no value.
C27_ValueOrParts ==
  (last.op \in EnvelopeOps /\ last.res.ok) =>
    \A i \in 1..Len(ReturnedParameters) : OneSlot(ReturnedParameters[i])

\* an envelope that holds a Parameter with a value and one with sub-Parameters
C27_Witness ==
  /\ last.op \in EnvelopeOps
  /\ last.res.ok
  /\ \E i, j \in 1..Len(ReturnedParameters) :
       /\ ReturnedParameters[i].value /= None
       /\ ReturnedParameters[j].part /= None
       /\ Len(ReturnedParameters[j].part[1]) = 2

(***************************************************************************)
(* Claims on the instance forms                                            *)
(***************************************************************************)
\* the rows of a table without the other versions of the url of the row id
Sole(rows, id) ==
  IF by_id(rows, id) = None THEN rows
  ELSE {r \in rows : r.id = id \/ r.url /= by_id(rows, id)[1].url}

\* the Store in which the resource of the path-bound identifier is the only
\* version of its url
SoleVersionStore ==
  [store EXCEPT !.code_systems = Sole(store.code_systems, last.id[1]),
                !.value_sets = Sole(store.value_sets, last.id[1]),
                !.concept_maps = Sole(store.concept_maps, last.id[1])]

\* C28: an instance-form invocation on the identifier X is answered from the
\* resource X: it returns what it returns on the Store that holds no other
\* version of the url of X.
C28_AnsweredFromInstance ==
  (last /= NoCall /\ IsInstance(last) /\ ~StoreFailed(last)) =>
    \E gen \in Gens : last.res = RerunOn(SoleVersionStore, gen, NoFault).res

(***************************************************************************)
(* Claims on the numbers given to $expand                                  *)
(***************************************************************************)
\* C29: for every offset and count given to Expand, negative ones included,
\* the reported 'offset' is the offset given (0 when absent) and 'contains'
\* holds at most max(count, 0) entries (count 100 when absent).
C29_NoWrap ==
  (last.op = "expand" /\ last.res.ok) =>
    /\ ExpansionOf(last).offset = unwrap_or(ExpandedParams.offset, DefaultOffset)
    /\ Len(ExpansionOf(last).contains)
         <= Max2(unwrap_or(ExpandedParams.count, DefaultCount), 0)

(***************************************************************************)
(* crates/cli: commands/import.rs.  Under SpecImport 'last' holds the run  *)
(* of the import command: its place, the package, the transaction's view   *)
(* of the tables (what its statements see and write, invisible to the      *)
(* Store until the commit), and the outcome of each resource.  A statement *)
(* may fail; after a failed statement the transaction is aborted and every *)
(* later statement in it fails.                                            *)
(***************************************************************************)
MaxResources == 3

FhirResource(resource_type, url, version, concept) ==
  [resource_type |-> resource_type, url |-> url, version |-> version, concept |-> concept]

code_a == [code |-> Some("a"), display |-> Some("Alpha")]

code_b == [code |-> Some("b"), display |-> None]

code_missing == [code |-> None, display |-> Some("No code")]

\* the resources a package may hold: CodeSystems with and without version,
\* with a concept that has no code, without url; a ValueSet; a ConceptMap; a
\* resource of another type
ResourcePool ==
  {FhirResource("CodeSystem", Some("http://x/cs"), Some("1.0"), Some(<<code_a, code_b>>)),
   FhirResource("CodeSystem", Some("http://x/cs"), None, None),
   FhirResource("CodeSystem", Some("http://x/none"), Some("1.0"),
                Some(<<code_a, code_missing, code_b>>)),
   FhirResource("CodeSystem", None, Some("1.0"), None),
   FhirResource("ValueSet", Some("http://x/vs"), Some("1.0"), None),
   FhirResource("ConceptMap", Some("http://x/cm"), None, None),
   FhirResource("Patient", None, None, None)}

Packages == UNION {[1..n -> ResourcePool] : n \in 0..MaxResources}

\* Uuid::new_v4(): an identifier no row has
NewIds == <<"n-1", "n-2", "n-3", "n-4", "n-5", "n-6", "n-7", "n-8">>

new_v4(tx) ==
  NewIds[Cardinality(tx.code_systems) + Cardinality(tx.value_sets)
           + Cardinality(tx.concept_maps) + 1]

\* SELECT EXISTS(SELECT 1 FROM <table> WHERE url = $1 AND version = $2), or
\* AND version IS NULL
exists(rows, url, version) == \E r \in rows : r.url = url /\ r.version = version

Imported(res, tx, aborted) == [res |-> res, tx |-> tx, aborted |-> aborted]

\* the concepts inserted before the first one that has no code, and whether
\* one has no code
import_concepts(tx, code_system_id, concepts) ==
  LET bad == {k \in 1..Len(concepts) : concepts[k].code = None}
      upto == IF bad = {} THEN Len(concepts) ELSE Min(bad) - 1
      rows == {[code_system_id |-> code_system_id, code |-> concepts[k].code[1],
                display |-> concepts[k].display, definition |-> None,
                properties |-> None] : k \in 1..upto}
      fresh == {r \in rows : \A c \in tx.concepts :
                  ~(c.code_system_id = r.code_system_id /\ c.code = r.code)}
  IN [tx |-> [tx EXCEPT !.concepts = @ \cup fresh], ok |-> bad = {}]

import_code_system(tx, resource, aborted, sql_fails) ==
  IF resource.url = None THEN Imported("failed", tx, aborted)
  ELSE IF aborted \/ sql_fails THEN Imported("failed_statement", tx, TRUE)
  ELSE IF exists(tx.code_systems, resource.url[1], resource.version)
  THEN Imported("skipped", tx, aborted)
  ELSE LET id == new_v4(tx)
           inserted == [tx EXCEPT !.code_systems = @ \cup
                          {[id |-> id, url |-> resource.url[1],
                            version |-> resource.version, name |-> None,
                            updated_at |-> 3]}]
           with_concepts == import_concepts(inserted, id, resource.concept[1])
       IN IF resource.concept = None THEN Imported("imported", inserted, aborted)
          ELSE IF with_concepts.ok THEN Imported("imported", with_concepts.tx, aborted)
          ELSE Imported("failed", with_concepts.tx, aborted)

import_value_set(tx, resource, aborted, sql_fails) ==
  IF resource.url = None THEN Imported("failed", tx, aborted)
  ELSE IF aborted \/ sql_fails THEN Imported("failed_statement", tx, TRUE)
  ELSE IF exists(tx.value_sets, resource.url[1], resource.version)
  THEN Imported("skipped", tx, aborted)
  ELSE Imported("imported",
                [tx EXCEPT !.value_sets = @ \cup
                   {[id |-> new_v4(tx), url |-> resource.url[1],
                     version |-> resource.version, name |-> None, updated_at |-> 3,
                     content |-> [resourceType |-> "ValueSet",
                                  url |-> resource.url[1]]]}],
                aborted)

import_concept_map(tx, resource, aborted, sql_fails) ==
  IF resource.url = None THEN Imported("failed", tx, aborted)
  ELSE IF aborted \/ sql_fails THEN Imported("failed_statement", tx, TRUE)
  ELSE IF exists(tx.concept_maps, resource.url[1], resource.version)
  THEN Imported("skipped", tx, aborted)
  ELSE Imported("imported",
                [tx EXCEPT !.concept_maps = @ \cup
                   {[id |-> new_v4(tx), url |-> resource.url[1],
                     version |-> resource.version, name |-> None, updated_at |-> 3,
                     content |-> [group |-> None]]}],
                aborted)

import_resource(tx, resource, aborted, sql_fails) ==
  CASE resource.resource_type = "CodeSystem" ->
         import_code_system(tx, resource, aborted, sql_fails)
    [] resource.resource_type = "ValueSet" ->
         import_value_set(tx, resource, aborted, sql_fails)
    [] resource.resource_type = "ConceptMap" ->
         import_concept_map(tx, resource, aborted, sql_fails)
    [] OTHER -> Imported("skipped", tx, aborted)

\* the answers typed at the confirmation prompt
Answers == {"y", "Y", "n", ""}

\* input.trim().eq_ignore_ascii_case("y")
confirms(answer) == answer \in {"y", "Y"}

ImportRun(pc, package, dry_run, yes, answer, before, tx, result) ==
  [op |-> "import", pc |-> pc, package |-> package, dry_run |-> dry_run, yes |-> yes,
   answer |-> answer, before |-> before, tx |-> tx, remaining |-> package,
   outcomes |-> << >>, aborted |-> FALSE, result |-> result]

\* run, up to pool.begin() of import_resources
Run ==
  /\ last = NoCall
  /\ \E package \in Packages, dry_run \in BOOLEAN, yes \in BOOLEAN, answer \in Answers,
        extracted \in BOOLEAN, begun \in BOOLEAN :
       last' = IF ~extracted
               THEN ImportRun("returned", << >>, dry_run, yes, answer, store, store, "err")
               ELSE IF dry_run \/ (~yes /\ ~confirms(answer))
               THEN ImportRun("returned", package, dry_run, yes, answer, store, store, "ok")
               ELSE IF ~begun
               THEN ImportRun("returned", package, dry_run, yes, answer, store, store, "err")
               ELSE ImportRun("importing", package, dry_run, yes, answer, store, store,
                              "none")
  /\ UNCHANGED store

\* one turn of `for resource in resources`
ImportResource ==
  /\ last /= NoCall
  /\ last.op = "import"
  /\ last.pc = "importing"
  /\ last.remaining /= << >>
  /\ \E sql_fails \in BOOLEAN :
       LET done == import_resource(last.tx, Head(last.remaining), last.aborted, sql_fails)
       IN last' = [last EXCEPT !.tx = done.tx,
                               !.aborted = done.aborted,
                               !.remaining = Tail(last.remaining),
                               !.outcomes = Append(last.outcomes, done.res)]
  /\ UNCHANGED store

Failures(outcomes) ==
  {i \in 1..Len(outcomes) : outcomes[i] \in {"failed", "failed_statement"}}

\* an import that commits what it wrote whatever failed
ImportFinish_commit_always ==
  /\ last /= NoCall
  /\ last.op = "import"
  /\ last.pc = "importing"
  /\ last.remaining = << >>
  /\ \E commit_fails \in BOOLEAN :
       IF last.aborted \/ commit_fails
       THEN last' = [last EXCEPT !.pc = "returned", !.result = "err"] /\ UNCHANGED store
       ELSE /\ last' = [last EXCEPT !.pc = "returned",
                                   !.result = IF Failures(last.outcomes) /= {} THEN "err"
                                              ELSE "ok"]
            /\ store' = last.tx

\* the end of import_resources: rollback and bail!, or commit
ImportFinish ==
  /\ last /= NoCall
  /\ last.op = "import"
  /\ last.pc = "importing"
  /\ last.remaining = << >>
  /\ \E commit_fails \in BOOLEAN :
       IF Failures(last.outcomes) /= {} \/ commit_fails
       THEN last' = [last EXCEPT !.pc = "returned", !.result = "err"] /\ UNCHANGED store
       ELSE last' = [last EXCEPT !.pc = "returned", !.result = "ok"] /\ store' = last.tx

\* no table; the CodeSystem and the ValueSet of the package already there
ImportStores ==
  {EmptyStore,
   [EmptyStore EXCEPT !.code_systems = {cs1},
                      !.concepts = {LookupConcept("cs-1", "a", 1)},
                      !.value_sets = {vs1}]}

InitImport == store \in ImportStores /\ last = NoCall

NextImport == Run \/ ImportResource \/ ImportFinish

SpecImport == InitImport /\ [][NextImport]_vars

(***************************************************************************)
(* Claims on the package import                                            *)
(***************************************************************************)
\* the table a resource of the package is imported into
TableOf(st, resource) ==
  CASE resource.resource_type = "CodeSystem" -> st.code_systems
    [] resource.resource_type = "ValueSet" -> st.value_sets
    [] resource.resource_type = "ConceptMap" -> st.concept_maps
    [] OTHER -> {}

\* the resource at a position of the package was in the Store before the import
AlreadyThere(i) ==
  /\ last.package[i].url /= None
  /\ exists(TableOf(last.before, last.package[i]), last.package[i].url[1],
            last.package[i].version)

\* C30: the import is all-or-nothing.  The Store changes only by the commit
\* of a run in which no resource failed, to what the transaction wrote; when
\* a resource fails every resource is still attempted, the run returns an
\* error and the Store is as before; a resource whose (url, version) is
\* already there is skipped unless a statement of the transaction failed; a
\* dry run or a declined confirmation attempts nothing and writes nothing.
C30_AllOrNothing ==
  (last /= NoCall /\ last.op = "import") =>
    /\ last.pc /= "returned" => store = last.before
    /\ store /= last.before =>
         /\ last.result = "ok"
         /\ Failures(last.outcomes) = {}
         /\ store = last.tx
    /\ (last.pc = "returned" /\ Failures(last.outcomes) /= {}) =>
         /\ last.result = "err"
         /\ store = last.before
         /\ Len(last.outcomes) = Len(last.package)
    /\ (last.pc = "returned" /\ last.result = "ok" /\ last.outcomes /= << >>) =>
         /\ store = last.tx
         /\ Len(last.outcomes) = Len(last.package)
    /\ \A i \in 1..Len(last.outcomes) :
         (AlreadyThere(i) /\ \A j \in 1..i : last.outcomes[j] /= "failed_statement") =>
           last.outcomes[i] = "skipped"
    /\ (last.dry_run \/ (~last.yes /\ ~confirms(last.answer))) =>
         /\ last.pc = "returned"
         /\ last.outcomes = << >>
         /\ store = last.before

\* the first resource failed, a later one was imported in the transaction,
\* and the run returned an error with the Store as before
C30_Witness ==
  /\ last /= NoCall
  /\ last.op = "import"
  /\ last.pc = "returned"
  /\ last.result = "err"
  /\ Len(last.outcomes) >= 2
  /\ last.outcomes[1] = "failed"
  /\ last.outcomes[2] = "imported"
  /\ last.tx /= last.before
  /\ store = last.before

====
